---- MODULE Spec2Model ----
(***************************************************************************)
(* A model of the TaskChute export CLI.                                    *)
(*                                                                         *)
(*   Spec         TaskChuteDataFetcher.getTaskDataFromCSV (src/fetcher.ts) *)
(*                one run of the export pipeline, with the download        *)
(*                directory and the browser's download event as the        *)
(*                environment.                                             *)
(*                                                                         *)
(*                                                                         *)
(*   SpecLive     Spec with the steps of the run taken when they can be.   *)
(*                                                                         *)
(*   SpecSession  the two persisted sessions and their users:              *)
(*                SessionManager (src/session-manager.ts) with             *)
(*                AuthenticatedFetcher (src/unnamed/part_003), and         *)
(*                TaskChuteAuth (src/auth.ts) with the CLI's login and     *)
(*                check-login handlers (src/unnamed/part_002).             *)
(*                                                                         *)
(*   SpecDate     setDateInputStable (src/unnamed/part_000), the input of  *)
(*                one date into one field.                                 *)
(*                                                                         *)
(*   SpecNorm     the --from and --to options of csv-download on their way *)
(*                to the date input.                                       *)
(*                                                                         *)
(*   SpecParse    TaskChuteCsvParser.parseFile and calculateStats          *)
(*                (src/csv-parser.ts) on the texts of small files.         *)
(*                                                                         *)
(*   SpecStore    SessionManager and the launch of the browser by          *)
(*                AuthenticatedFetcher alone, with the options they hand   *)
(*                out.                                                     *)
(*                                                                         *)
(*   SpecAuth     TaskChuteAuth alone: createSession, isLoggedIn,          *)
(*                refreshSession and logout over a stored session of any   *)
(*                age and owner.                                           *)
(*                                                                         *)
(*   SpecRun      CLI.run (src/unnamed/part_002) on short argument lists:  *)
(*                help, dry run, dispatch, unknown command.                *)
(*                                                                         *)
(*   SpecFetch    CLI.handleFetch (src/unnamed/part_002): validation of    *)
(*                the arguments, then navigation, login check, retrieval   *)
(*                and saving.                                              *)
(*                                                                         *)
(*   SpecReady    TaskChuteDataFetcher.waitForReactReady and its three     *)
(*                waits.                                                   *)
(*                                                                         *)
(*   SpecCmd      the command handlers of the CLI with the browser they    *)
(*                launch and the cleanup() they call.                      *)
(*                                                                         *)
(*   SpecPlatform detectPlatform (src/platform.ts) and the functions it    *)
(*                calls, with the call stack.                              *)
(*                                                                         *)
(* Times are milliseconds.  In Spec the clock is 0 when the run starts and *)
(* only the waits after the click on the download button advance it; in    *)
(* SpecSession time passes in steps of TickHours hours.                    *)
(***************************************************************************)
EXTENDS Integers, Sequences, FiniteSets, TLC

(***************************************************************************)
(* Bounds of the model.                                                    *)
(***************************************************************************)
MaxLines == 2
MaxPreFiles == 1
MaxTicks == 3
TickHours == 12
MaxStack == 3

(***************************************************************************)
(* Program constants.                                                      *)
(***************************************************************************)
NumColumns == 19
ScanMarginMs == 5000
ScanLimit == 3
PostClickCheckMs == 2000
PostClickWaitMs == 3000
DownloadEventTimeoutMs == 10000
HourMs == 3600000
DefaultExpiryHours == 24
CustomExpiryHours == 12
AuthExpiryHours == 24
DefaultTimeoutMs == 30000
SkeletonTimeoutMs == 10000
SettleMs == 1000

VARIABLES
  pc,                \* position of the run inside getTaskDataFromCSV
  page,              \* this.page: "null" or "open"
  result,            \* the FetchResult the run returned (meaningful when pc = "done")
  stages,            \* the pipeline stages the run has entered, in order
  needsLogin,        \* the run found the user not logged in / was redirected to login
  buttonDisabled,    \* buttonInfo.disabled
  exportClicks,      \* number of clicks made on the download button
  downloadStartTime, \* Date.now() taken right before the click
  foundFile,         \* the file the directory scan picked, or NoFile
  thrown,            \* the error a catch block is handling
  via,               \* the capture channel whose payload the result carries
  listening,         \* a waitForEvent('download') is pending
  listeningAtClick,  \* ... and was pending when the button was clicked
  captureTimedOut,   \* the scan found nothing and the download event timed out
  clock,             \* Date.now()
  downloads,         \* the files of $HOME/Downloads
  dlEvent,           \* the browser's download event: "none", "lost", "caught"
  exportStarted,     \* the click started an export on the remote side
  exportPayload,     \* the text the remote side exports
  order,             \* number of capture channels that have resolved so far
  eventAt,           \* position of the download event among them (0: not yet)
  fileAt,            \* position of the exported file's arrival (0: not yet)
  now,               \* Date.now() of the session model
  expiryMs,          \* SessionManager.expiryMs
  mtimeAvailable,    \* the platform's stat() reports an mtime
  storage,           \* the storageState file of SessionManager
  session,           \* session.json of TaskChuteAuth
  afPage,            \* AuthenticatedFetcher.page: "null" or "open"
  afContext,         \* AuthenticatedFetcher.context: "null", "fresh" or "restored"
  ctxAuth,           \* the open browser context is logged in to the remote site
  profileAuth,       \* the persistent browser profile is logged in
  loginSeen,         \* a login success has been detected
  lastOp,            \* the operation that ran last
  lastReturn,        \* what it returned
  raised,            \* it raised instead of returning
  prevStorage,       \* the storageState file before it ran
  prevSession,       \* session.json before it ran
  prevContext,       \* AuthenticatedFetcher.context before it ran
  datePc,            \* position in setDateInputStable
  dateTarget,        \* its date argument
  dateValue,         \* the value of the input field
  dateExecuted,      \* the strategies executed so far, in order
  dateReadBacks,     \* the values read back after them
  dateThrown,        \* setDateInputStable ended with an exception
  cliResult,         \* the CLIResult handleCSVDownload returned
  normPc,            \* how far the --from / --to options have come
  optFrom,           \* options.from
  optTo,             \* options.to
  fromDate,          \* fromDate as passed to getTaskDataFromCSV
  toDate,            \* toDate as passed to getTaskDataFromCSV
  startDate,         \* startDate of the date-input step
  endDate,           \* endDate of the date-input step
  today,             \* the current date, as YYYYMMDD
  parsePc,           \* position of the parser model
  parseText,         \* the text of the file given to parseFile
  parseRead,         \* how Deno.readTextFile ends
  parseThrew,        \* parseFile raised
  parseTasks,        \* the tasks parseFile returned
  parseStats,        \* what calculateStats made of them
  runPc,             \* position of CLI.run and of handleFetch
  runArgs,           \* the command line arguments given to run
  runOptions,        \* the options parseOptions made of them
  runResult,         \* what run returned or raised
  runCalls,          \* the handler and fetcher methods called, in order
  readyPc,           \* position of waitForReactReady
  readyPage,         \* this.page for it: "null", "open" or "closed"
  readyTimeoutMs,    \* the page's default timeout (options.timeout)
  readySkeletonMs,   \* when the loading placeholder is hidden, counted from the call
  readyLoadMs,       \* when the page reaches its load state, counted from the call
  readyWaitedMs,     \* time waited so far inside the call
  cmdPc,             \* position of the command handler
  cmdName,           \* the command
  cmdPersistent,     \* options.userDataDir is set: the browser is a persistent context
  cmdOpen,           \* the fetcher's page, context and browser that are open
  cmdLaunched,       \* the command has launched the browser
  cmdOutcome,        \* how the handler's work ended
  cmdCleanups,       \* number of calls of the fetcher's cleanup()
  platPc,            \* position in detectPlatform and what it calls
  platOs,            \* Deno.build.os
  platProc,          \* /proc/version: readable, and what its text contains
  platEnvUser,       \* the environment has WINDOWS_USERNAME
  platScan,          \* what the scan of /mnt/c/Users finds
  platStack,         \* the call stack: one PlatformInfo or marker per frame
  platRet,           \* the value the frame that ended last returned
  platCalls          \* number of calls of detectPlatform so far

pipeVars == <<pc, page, result, stages, needsLogin, buttonDisabled, exportClicks,
              downloadStartTime, foundFile, thrown, via, listening, listeningAtClick,
              captureTimedOut>>
envVars == <<clock, downloads, dlEvent, exportStarted, exportPayload, order,
             eventAt, fileAt>>
sessVars == <<now, expiryMs, mtimeAvailable, storage, session, afPage, afContext,
              ctxAuth, profileAuth, loginSeen, lastOp, lastReturn, raised,
              prevStorage, prevSession, prevContext>>
dateVars == <<datePc, dateTarget, dateValue, dateExecuted, dateReadBacks, dateThrown>>
cliVars == <<cliResult>>
normVars == <<normPc, optFrom, optTo, fromDate, toDate, startDate, endDate, today>>
parseVars == <<parsePc, parseText, parseRead, parseThrew, parseTasks, parseStats>>
runVars == <<runPc, runArgs, runOptions, runResult, runCalls>>
readyVars == <<readyPc, readyPage, readyTimeoutMs, readySkeletonMs, readyLoadMs, readyWaitedMs>>
cmdVars == <<cmdPc, cmdName, cmdPersistent, cmdOpen, cmdLaunched, cmdOutcome, cmdCleanups>>
platVars == <<platPc, platOs, platProc, platEnvUser, platScan, platStack, platRet, platCalls>>
vars == <<pipeVars, envVars, sessVars, dateVars, cliVars, normVars, parseVars, runVars, readyVars, cmdVars, platVars>>

\* what the actions of one specification leave alone
otherThanPipeline == <<sessVars, dateVars, cliVars, normVars, parseVars, runVars, readyVars, cmdVars, platVars>>
otherThanSession == <<pipeVars, envVars, dateVars, cliVars, normVars, parseVars, runVars, readyVars, cmdVars, platVars>>
otherThanDate == <<pipeVars, envVars, sessVars, cliVars, normVars, parseVars, runVars, readyVars, cmdVars, platVars>>
otherThanNorm == <<pipeVars, envVars, sessVars, dateVars, cliVars, parseVars, runVars, readyVars, cmdVars, platVars>>
otherThanParse == <<pipeVars, envVars, sessVars, dateVars, cliVars, normVars, runVars, readyVars, cmdVars, platVars>>
otherThanRun == <<pipeVars, envVars, sessVars, dateVars, cliVars, normVars, parseVars, readyVars, cmdVars, platVars>>
otherThanReady == <<pipeVars, envVars, sessVars, dateVars, cliVars, normVars, parseVars, runVars, cmdVars, platVars>>
otherThanCmd == <<pipeVars, envVars, sessVars, dateVars, cliVars, normVars, parseVars, runVars, readyVars, platVars>>
otherThanPlat == <<pipeVars, envVars, sessVars, dateVars, cliVars, normVars, parseVars, runVars, readyVars, cmdVars>>

(***************************************************************************)
(* Exported text.  A line is the number of its comma-separated fields and  *)
(* the three columns the parser's status and title logic read.             *)
(***************************************************************************)
LineDone == [n |-> NumColumns, title |-> "T", start |-> "S", end |-> "E"]
LineRunning == [n |-> NumColumns, title |-> "T", start |-> "S", end |-> ""]
LineNoTitle == [n |-> NumColumns, title |-> "", start |-> "", end |-> ""]
LineShort == [n |-> 2, title |-> "", start |-> "", end |-> ""]
LinePlain == [n |-> 1, title |-> "", start |-> "", end |-> ""]
Lines == {LineDone, LineRunning, LineNoTitle, LineShort, LinePlain}

RECURSIVE SeqsUpTo(_, _)
SeqsUpTo(S, k) ==
  IF k = 0 THEN {<<>>}
  ELSE LET shorter == SeqsUpTo(S, k - 1)
       IN  shorter \cup {Append(s, x) : s \in {t \in shorter : Len(t) = k - 1}, x \in S}

Payloads == SeqsUpTo(Lines, MaxLines)

\* fileContent.includes('","') || fileContent.includes(',')
IncludesComma(content) == \E i \in 1..Len(content) : content[i].n >= 2

\* determineStatus looking at the start time before the end time
determineStatus_StartFirst(line) ==
  IF line.start # "" THEN "in_progress"
  ELSE IF line.end # "" THEN "completed"
  ELSE "pending"

\* TaskChuteCsvParser.determineStatus
determineStatus(line) ==
  IF line.end # "" THEN "completed"
  ELSE IF line.start # "" THEN "in_progress"
  ELSE "pending"

\* std/csv parse with `columns`: a data row of another width is an error
ParseThrows(content) == \E i \in 2..Len(content) : content[i].n # NumColumns

\* TaskChuteCsvParser.parseFile: the first row is skipped, every other row
\* becomes one task
parseFile(content) ==
  [i \in 1..(IF Len(content) = 0 THEN 0 ELSE Len(content) - 1) |->
     [title |-> content[i + 1].title, status |-> determineStatus(content[i + 1])]]

(***************************************************************************)
(* FetchResult.  `has` is the set of optional fields the object carries.   *)
(***************************************************************************)
NoFile == [name |-> "", mtime |-> 0, content |-> <<>>]
NoResult == [success |-> FALSE, has |-> {}, tasks |-> <<>>, error |-> <<>>,
             downloadPath |-> ""]
FailureResult(msg) == [success |-> FALSE, has |-> {"error"}, tasks |-> <<>>,
                       error |-> msg, downloadPath |-> ""]
SuccessResult(tasks, path) == [success |-> TRUE, has |-> {"tasks", "downloadPath"},
                               tasks |-> tasks, error |-> <<>>, downloadPath |-> path]

\* the errors driver and file-system calls raise
DriverErrors == {"DriverError"}
FsErrors == {"FsError"}

(***************************************************************************)
(* The download directory.                                                 *)
(***************************************************************************)
\* file.name.endsWith(".csv") || <UUID pattern>.test(file.name)
NameMatches(name) == name \in {"old.csv", "uuid"}

PreContents == {<<LineDone, LineDone>>, <<LinePlain>>}
PreFiles ==
  {[name |-> "old.csv", mtime |-> m, content |-> c] :
     m \in {0 - ScanMarginMs - 1000, 0 - ScanMarginMs}, c \in PreContents}
  \cup {[name |-> "notes.txt", mtime |-> 0 - 1000, content |-> <<LineDone, LineDone>>]}

UniqueNames(S) == \A f \in S, g \in S : f.name = g.name => f = g

\* recentFiles after sort((a, b) => b.mtime - a.mtime): any order of the
\* matching files that is descending in mtime
SortedRecentFiles(dir) ==
  LET cand == {f \in dir : NameMatches(f.name)}
      n == Cardinality(cand)
  IN  {s \in [1..n -> cand] :
         /\ \A i \in 1..n, j \in 1..n : i # j => s[i] # s[j]
         /\ \A i \in 1..n, j \in 1..n : i < j => s[i].mtime >= s[j].mtime}

\* file.mtime >= downloadStartTime - 5000 and the content has a comma
Accepts(f, startTime) ==
  /\ f.mtime >= startTime - ScanMarginMs
  /\ IncludesComma(f.content)

\* the loop over the first Math.min(3, recentFiles.length) files
ScanPick(s, startTime) ==
  LET lim == IF Len(s) < ScanLimit THEN Len(s) ELSE ScanLimit
      hits == {i \in 1..lim : Accepts(s[i], startTime)}
  IN  IF hits = {} THEN NoFile
      ELSE s[CHOOSE i \in hits : \A j \in hits : i <= j]

(***************************************************************************)
(* Returning from getTaskDataFromCSV.                                      *)
(***************************************************************************)
Return(r) == pc' = "done" /\ result' = r

\* catch (error) { return { success: false, error: error.message } }
OuterCatch_Rethrow(e) ==
  Return([success |-> FALSE, has |-> {"exception"}, tasks |-> <<>>, error |-> <<e>>,
          downloadPath |-> ""])

OuterCatch(e) == Return(FailureResult(<<e>>))

\* Playwright driver calls: they complete or raise
Driver == {"ok"} \cup DriverErrors
FileSystem == {"ok"} \cup FsErrors

\* waitForReactReady: the skeleton wait is caught, waitForLoadState is not
waitForReactReady == Driver

(***************************************************************************)
(* Init                                                                    *)
(***************************************************************************)
InitPipeline ==
  /\ pc = "start"
  /\ page \in {"null", "open"}
  /\ result = NoResult
  /\ stages = <<>>
  /\ needsLogin = FALSE
  /\ buttonDisabled = FALSE
  /\ exportClicks = 0
  /\ downloadStartTime = 0
  /\ foundFile = NoFile
  /\ thrown = ""
  /\ via = "none"
  /\ listening = FALSE
  /\ listeningAtClick = FALSE
  /\ captureTimedOut = FALSE
  /\ clock = 0
  /\ downloads \in {S \in SUBSET PreFiles : Cardinality(S) <= MaxPreFiles /\ UniqueNames(S)}
  /\ dlEvent = "none"
  /\ exportStarted = FALSE
  /\ exportPayload \in Payloads
  /\ order = 0
  /\ eventAt = 0
  /\ fileAt = 0

NoStorage == [exists |-> FALSE, mtime |-> 0, parseable |-> FALSE, authenticated |-> FALSE]
NoSession == [exists |-> FALSE, parseable |-> FALSE, loggedInAt |-> 0,
              sessionValid |-> FALSE, email |-> ""]

\* new SessionManager(path, { expiryHours }): expiryHours ?? 24, in milliseconds
ExpiryMs(expiryHours) == expiryHours * HourMs

InitSession ==
  /\ now = 0
  /\ expiryMs \in {ExpiryMs(DefaultExpiryHours), ExpiryMs(CustomExpiryHours)}
  /\ mtimeAvailable \in BOOLEAN
  /\ storage = NoStorage
  /\ session = NoSession
  /\ afPage = "null"
  /\ afContext = "null"
  /\ ctxAuth = FALSE
  /\ profileAuth = FALSE
  /\ loginSeen = FALSE
  /\ lastOp = "none"
  /\ lastReturn = [void |-> TRUE]
  /\ raised = FALSE
  /\ prevStorage = NoStorage
  /\ prevSession = NoSession
  /\ prevContext = "null"

\* the session model at rest, for the specification of the pipeline
SessionIdle ==
  /\ InitSession
  /\ expiryMs = ExpiryMs(DefaultExpiryHours)
  /\ mtimeAvailable

\* the pipeline at rest, for the specification of the sessions
PipelineIdle ==
  /\ InitPipeline
  /\ page = "null"
  /\ downloads = {}
  /\ exportPayload = <<>>

\* handleCSVDownload has not returned
NoCliResult == [returned |-> FALSE]
CliFailure(msg) == [returned |-> TRUE, success |-> FALSE, command |-> "csv-download",
                    has |-> {"error"}, error |-> msg]
CliSuccess(path) == [returned |-> TRUE, success |-> TRUE, command |-> "csv-download",
                     has |-> {"options", "data"}, downloadPath |-> path]

CliIdle == cliResult = NoCliResult

\* an option or argument that was not given
Undefined == <<"undefined">>

\* no --from / --to handled
NormIdle ==
  /\ normPc = "idle"
  /\ optFrom = Undefined /\ optTo = Undefined
  /\ fromDate = Undefined /\ toDate = Undefined
  /\ startDate = <<>> /\ endDate = <<>>
  /\ today = <<>>

\* parseFile not called
NoStats == [totalTasks |-> 0, completedTasks |-> 0, inProgressTasks |-> 0,
            pendingTasks |-> 0]
ParseIdle ==
  /\ parsePc = "idle"
  /\ parseText = [boms |-> 0, quoted |-> FALSE, lines |-> <<>>]
  /\ parseRead = "ok"
  /\ parseThrew = FALSE
  /\ parseTasks = <<>>
  /\ parseStats = NoStats

\* run not called
NoOptions == [k \in {} |-> TRUE]
NoRunResult == [none |-> TRUE]
RunIdle ==
  /\ runPc = "idle"
  /\ runArgs = <<>>
  /\ runOptions = NoOptions
  /\ runResult = NoRunResult
  /\ runCalls = <<>>

\* waitForReactReady not called
ReadyIdle ==
  /\ readyPc = "idle"
  /\ readyPage = "null"
  /\ readyTimeoutMs = DefaultTimeoutMs
  /\ readySkeletonMs = 0
  /\ readyLoadMs = 0
  /\ readyWaitedMs = 0

\* no command handler called
CmdIdle ==
  /\ cmdPc = "idle"
  /\ cmdName = ""
  /\ cmdPersistent = FALSE
  /\ cmdOpen = {}
  /\ cmdLaunched = FALSE
  /\ cmdOutcome = "none"
  /\ cmdCleanups = 0

\* detectPlatform not called
NoPlatformInfo == [isWSL |-> FALSE, isMac |-> FALSE, isWindows |-> FALSE,
                   isLinux |-> FALSE, chromeUserDataDir |-> "undefined"]
PlatIdle ==
  /\ platPc = "idle"
  /\ platOs = ""
  /\ platProc = [readable |-> FALSE, microsoft |-> FALSE, wsl |-> FALSE]
  /\ platEnvUser = FALSE
  /\ platScan = "none"
  /\ platStack = <<>>
  /\ platRet = NoPlatformInfo
  /\ platCalls = 0

\* setDateInputStable not called
DateIdle ==
  /\ datePc = "idle"
  /\ dateTarget = <<>>
  /\ dateValue = <<>>
  /\ dateExecuted = <<>>
  /\ dateReadBacks = <<>>
  /\ dateThrown = FALSE

Init == InitPipeline /\ SessionIdle /\ DateIdle /\ CliIdle /\ NormIdle /\ ParseIdle /\ RunIdle /\ ReadyIdle /\ CmdIdle /\ PlatIdle

(***************************************************************************)
(* getTaskDataFromCSV, step by step.                                       *)
(***************************************************************************)
\* if (!this.page) { launchBrowser() ... }
LaunchIfNeeded ==
  /\ pc = "start"
  /\ \/ /\ page = "open"
        /\ pc' = "step1"
        /\ UNCHANGED <<page, result>>
     \/ /\ page = "null"
        /\ page' = "open"
        /\ pc' = "step1"
        /\ UNCHANGED result
     \/ /\ page = "null"
        /\ Return(FailureResult(<<"LaunchError">>))
        /\ UNCHANGED page
  /\ UNCHANGED <<stages, needsLogin, buttonDisabled, exportClicks, downloadStartTime,
                 foundFile, thrown, via, listening, listeningAtClick, captureTimedOut>>
  /\ UNCHANGED envVars
  /\ UNCHANGED otherThanPipeline

\* Step 1: goto the task page and wait for it to render
OpenTaskPage ==
  /\ pc = "step1"
  /\ stages' = Append(stages, "SessionCheck")
  /\ \E nav \in Driver, ready \in waitForReactReady :
       IF nav # "ok" THEN OuterCatch(nav)
       ELSE IF ready # "ok" THEN OuterCatch(ready)
       ELSE pc' = "loginCheck" /\ UNCHANGED result
  /\ UNCHANGED <<page, needsLogin, buttonDisabled, exportClicks, downloadStartTime,
                 foundFile, thrown, via, listening, listeningAtClick, captureTimedOut>>
  /\ UNCHANGED envVars
  /\ UNCHANGED otherThanPipeline

\* isUserLoggedIn: the header is found within 5 s, or it is not
isUserLoggedIn == BOOLEAN

\* CheckLogin without the early return
CheckLogin_NoReturn ==
  /\ pc = "loginCheck"
  /\ \E loggedIn \in isUserLoggedIn :
       /\ pc' = "step2"
       /\ needsLogin' = ~loggedIn
       /\ UNCHANGED result
  /\ UNCHANGED <<page, stages, buttonDisabled, exportClicks, downloadStartTime,
                 foundFile, thrown, via, listening, listeningAtClick, captureTimedOut>>
  /\ UNCHANGED envVars
  /\ UNCHANGED otherThanPipeline

\* if (!isLoggedIn) return failure
CheckLogin ==
  /\ pc = "loginCheck"
  /\ \E loggedIn \in isUserLoggedIn :
       IF loggedIn
       THEN pc' = "step2" /\ UNCHANGED <<result, needsLogin>>
       ELSE needsLogin' = TRUE /\ Return(FailureResult(<<"LoginRequired">>))
  /\ UNCHANGED <<page, stages, buttonDisabled, exportClicks, downloadStartTime,
                 foundFile, thrown, via, listening, listeningAtClick, captureTimedOut>>
  /\ UNCHANGED envVars
  /\ UNCHANGED otherThanPipeline

\* Step 2: goto the export page; a redirect to /login or /auth ends the run
OpenExportPage ==
  /\ pc = "step2"
  /\ stages' = Append(stages, "Navigating")
  /\ \E nav \in Driver, ready \in waitForReactReady, redirected \in BOOLEAN :
       IF nav # "ok" THEN OuterCatch(nav) /\ UNCHANGED needsLogin
       ELSE IF ready # "ok" THEN OuterCatch(ready) /\ UNCHANGED needsLogin
       ELSE IF redirected
       THEN needsLogin' = TRUE /\ Return(FailureResult(<<"RedirectedToLogin">>))
       ELSE pc' = "step3" /\ UNCHANGED <<result, needsLogin>>
  /\ UNCHANGED <<page, buttonDisabled, exportClicks, downloadStartTime,
                 foundFile, thrown, via, listening, listeningAtClick, captureTimedOut>>
  /\ UNCHANGED envVars
  /\ UNCHANGED otherThanPipeline

\* Steps 3 and 4: screenshot, saved HTML, title, listing of the page's controls
AnalyzePage ==
  /\ pc = "step3"
  /\ \E r \in Driver :
       IF r # "ok" THEN OuterCatch(r) ELSE pc' = "step5" /\ UNCHANGED result
  /\ UNCHANGED <<page, stages, needsLogin, buttonDisabled, exportClicks, downloadStartTime,
                 foundFile, thrown, via, listening, listeningAtClick, captureTimedOut>>
  /\ UNCHANGED envVars
  /\ UNCHANGED otherThanPipeline

\* Step 5: type year, month and day into the six spinbuttons, read them back
InputDates ==
  /\ pc = "step5"
  /\ stages' = Append(stages, "InputtingDates")
  /\ \E r \in Driver :
       IF r # "ok" THEN thrown' = r /\ pc' = "dateCatch"
       ELSE pc' = "closePicker" /\ UNCHANGED thrown
  /\ UNCHANGED <<page, result, needsLogin, buttonDisabled, exportClicks, downloadStartTime,
                 foundFile, via, listening, listeningAtClick, captureTimedOut>>
  /\ UNCHANGED envVars
  /\ UNCHANGED otherThanPipeline

\* click the body, then wait up to 10 s for an enabled download button; when
\* the wait times out the button's state and a screenshot are recorded
ClosePickerAndWait ==
  /\ pc = "closePicker"
  /\ \E click \in Driver, enabled \in BOOLEAN, debug \in Driver :
       IF click # "ok" THEN thrown' = click /\ pc' = "dateCatch"
       ELSE IF ~enabled /\ debug # "ok" THEN thrown' = debug /\ pc' = "dateCatch"
       ELSE pc' = "step6" /\ UNCHANGED thrown
  /\ UNCHANGED <<page, result, stages, needsLogin, buttonDisabled, exportClicks,
                 downloadStartTime, foundFile, via, listening, listeningAtClick,
                 captureTimedOut>>
  /\ UNCHANGED envVars
  /\ UNCHANGED otherThanPipeline

\* a catch of Step 5 that has the dates typed a second time
DateInputCatch_RetriesOnce ==
  /\ pc = "dateCatch"
  /\ \E shot \in Driver :
       IF shot # "ok" THEN OuterCatch(shot)
       ELSE /\ pc' = IF Len(SelectSeq(stages, LAMBDA st : st = "InputtingDates")) = 1
                       THEN "step5" ELSE "step6"
            /\ UNCHANGED result
  /\ UNCHANGED <<page, stages, needsLogin, buttonDisabled, exportClicks, downloadStartTime,
                 foundFile, thrown, via, listening, listeningAtClick, captureTimedOut>>
  /\ UNCHANGED envVars
  /\ UNCHANGED otherThanPipeline

\* catch of Step 5: a screenshot, then on to Step 6
DateInputCatch ==
  /\ pc = "dateCatch"
  /\ \E shot \in Driver :
       IF shot # "ok" THEN OuterCatch(shot) ELSE pc' = "step6" /\ UNCHANGED result
  /\ UNCHANGED <<page, stages, needsLogin, buttonDisabled, exportClicks, downloadStartTime,
                 foundFile, thrown, via, listening, listeningAtClick, captureTimedOut>>
  /\ UNCHANGED envVars
  /\ UNCHANGED otherThanPipeline

\* Step 6: the first selector whose button is visible
FindDownloadButton ==
  /\ pc = "step6"
  /\ stages' = Append(stages, "Triggering")
  /\ \E found \in BOOLEAN : pc' = IF found THEN "buttonInfo" ELSE "noButton"
  /\ UNCHANGED <<page, result, needsLogin, buttonDisabled, exportClicks, downloadStartTime,
                 foundFile, thrown, via, listening, listeningAtClick, captureTimedOut>>
  /\ UNCHANGED envVars
  /\ UNCHANGED otherThanPipeline

\* no button: list the page's buttons and fail
ButtonNotFound ==
  /\ pc = "noButton"
  /\ \E r \in Driver :
       IF r # "ok" THEN OuterCatch(r)
       ELSE Return(FailureResult(<<"ButtonNotFound">>))
  /\ UNCHANGED <<page, stages, needsLogin, buttonDisabled, exportClicks, downloadStartTime,
                 foundFile, thrown, via, listening, listeningAtClick, captureTimedOut>>
  /\ UNCHANGED envVars
  /\ UNCHANGED otherThanPipeline

\* buttonInfo = downloadButton.evaluate(...)
ReadButtonInfo ==
  /\ pc = "buttonInfo"
  /\ \E r \in Driver, disabled \in BOOLEAN :
       IF r # "ok" THEN OuterCatch(r) /\ UNCHANGED buttonDisabled
       ELSE pc' = "click" /\ buttonDisabled' = disabled /\ UNCHANGED result
  /\ UNCHANGED <<page, stages, needsLogin, exportClicks, downloadStartTime,
                 foundFile, thrown, via, listening, listeningAtClick, captureTimedOut>>
  /\ UNCHANGED envVars
  /\ UNCHANGED otherThanPipeline

\* inner try of Step 6: dismiss a tooltip, take downloadStartTime, click the
\* button (forced when it is disabled, through the page's script when the
\* normal click is rejected).  A disabled button starts no export.
ClickDownloadButton ==
  /\ pc = "click"
  /\ \E tooltip \in Driver, click \in Driver, jsClick \in Driver :
       IF tooltip # "ok"
       THEN /\ thrown' = tooltip /\ pc' = "downloadCatch"
            /\ UNCHANGED <<downloadStartTime, exportClicks, exportStarted, listeningAtClick>>
       ELSE /\ downloadStartTime' = clock
            /\ IF click = "ok" \/ (~buttonDisabled /\ jsClick = "ok")
               THEN /\ exportClicks' = exportClicks + 1
                    /\ exportStarted' = ~buttonDisabled
                    /\ listeningAtClick' = listening
                    /\ pc' = "postClick"
                    /\ UNCHANGED thrown
               ELSE /\ thrown' = (IF buttonDisabled THEN click ELSE jsClick)
                    /\ pc' = "downloadCatch"
                    /\ UNCHANGED <<exportClicks, exportStarted, listeningAtClick>>
  /\ UNCHANGED <<page, result, stages, needsLogin, buttonDisabled, foundFile, via,
                 listening, captureTimedOut>>
  /\ UNCHANGED <<clock, downloads, dlEvent, exportPayload, order, eventAt, fileAt>>
  /\ UNCHANGED otherThanPipeline

\* waitForTimeout(2000), then look for a snackbar
PostClickCheck ==
  /\ pc = "postClick"
  /\ clock' = clock + PostClickCheckMs
  /\ \E snackbar \in Driver :
       IF snackbar # "ok" THEN thrown' = snackbar /\ pc' = "downloadCatch"
       ELSE pc' = "postClickWait" /\ UNCHANGED thrown
  /\ UNCHANGED <<page, result, stages, needsLogin, buttonDisabled, exportClicks,
                 downloadStartTime, foundFile, via, listening, listeningAtClick,
                 captureTimedOut>>
  /\ UNCHANGED <<downloads, dlEvent, exportStarted, exportPayload, order, eventAt, fileAt>>
  /\ UNCHANGED otherThanPipeline

\* waitForTimeout(3000)
PostClickWait ==
  /\ pc = "postClickWait"
  /\ clock' = clock + PostClickWaitMs
  /\ pc' = "scan"
  /\ UNCHANGED <<page, result, stages, needsLogin, buttonDisabled, exportClicks,
                 downloadStartTime, foundFile, thrown, via, listening, listeningAtClick,
                 captureTimedOut>>
  /\ UNCHANGED <<downloads, dlEvent, exportStarted, exportPayload, order, eventAt, fileAt>>
  /\ UNCHANGED otherThanPipeline

\* ScanDownloads with the found file ignored: the run always waits for the event
ScanDownloads_AlwaysWait ==
  /\ pc = "scan"
  /\ stages' = Append(stages, "Capturing")
  /\ \E fs \in FileSystem, s \in SortedRecentFiles(downloads) :
       IF fs # "ok"
       THEN thrown' = fs /\ pc' = "downloadCatch" /\ UNCHANGED <<foundFile, listening>>
       ELSE /\ foundFile' = ScanPick(s, downloadStartTime)
            /\ pc' = "waitDownload" /\ listening' = TRUE
            /\ UNCHANGED thrown
  /\ UNCHANGED <<page, result, needsLogin, buttonDisabled, exportClicks,
                 downloadStartTime, via, listeningAtClick, captureTimedOut>>
  /\ UNCHANGED envVars
  /\ UNCHANGED otherThanPipeline

\* the scan of $HOME/Downloads; with no file found the run starts to wait
\* for the download event
ScanDownloads ==
  /\ pc = "scan"
  /\ stages' = Append(stages, "Capturing")
  /\ \E fs \in FileSystem, s \in SortedRecentFiles(downloads) :
       IF fs # "ok"
       THEN thrown' = fs /\ pc' = "downloadCatch" /\ UNCHANGED <<foundFile, listening>>
       ELSE /\ foundFile' = ScanPick(s, downloadStartTime)
            /\ IF foundFile' # NoFile
               THEN pc' = "copy" /\ UNCHANGED listening
               ELSE pc' = "waitDownload" /\ listening' = TRUE
            /\ UNCHANGED thrown
  /\ UNCHANGED <<page, result, needsLogin, buttonDisabled, exportClicks,
                 downloadStartTime, via, listeningAtClick, captureTimedOut>>
  /\ UNCHANGED envVars
  /\ UNCHANGED otherThanPipeline

\* copy the found file to the target directory, then remove the original
\* (a failed removal is ignored)
CopyFoundFile ==
  /\ pc = "copy"
  /\ \E fs \in FileSystem, removed \in BOOLEAN :
       IF fs # "ok"
       THEN thrown' = fs /\ pc' = "downloadCatch" /\ UNCHANGED downloads
       ELSE /\ downloads' = (IF removed THEN downloads \ {foundFile} ELSE downloads)
            /\ pc' = "parse"
            /\ UNCHANGED thrown
  /\ UNCHANGED <<page, result, stages, needsLogin, buttonDisabled, exportClicks,
                 downloadStartTime, foundFile, via, listening, listeningAtClick,
                 captureTimedOut>>
  /\ UNCHANGED <<clock, dlEvent, exportStarted, exportPayload, order, eventAt, fileAt>>
  /\ UNCHANGED otherThanPipeline

\* ParseCopiedFile whose parse-error branch returns the error next to success
ParseCopiedFile_ErrorInSuccess ==
  /\ pc = "parse"
  /\ stages' = Append(stages, "Parsing")
  /\ via' = "scan"
  /\ \E read \in FileSystem :
       IF read # "ok" \/ ParseThrows(foundFile.content)
       THEN Return([success |-> TRUE, has |-> {"error", "downloadPath"}, tasks |-> <<>>,
                    error |-> <<"ParseError">>, downloadPath |-> "target.csv"])
       ELSE Return(SuccessResult(parseFile(foundFile.content), "target.csv"))
  /\ UNCHANGED <<page, needsLogin, buttonDisabled, exportClicks, downloadStartTime,
                 foundFile, thrown, listening, listeningAtClick, captureTimedOut>>
  /\ UNCHANGED envVars
  /\ UNCHANGED otherThanPipeline

\* ParseCopiedFile whose parse-error branch returns a failure
ParseCopiedFile_Fatal ==
  /\ pc = "parse"
  /\ stages' = Append(stages, "Parsing")
  /\ via' = "scan"
  /\ \E read \in FileSystem :
       IF read # "ok" \/ ParseThrows(foundFile.content)
       THEN Return(FailureResult(<<"ParseError">>))
       ELSE Return(SuccessResult(parseFile(foundFile.content), "target.csv"))
  /\ UNCHANGED <<page, needsLogin, buttonDisabled, exportClicks, downloadStartTime,
                 foundFile, thrown, listening, listeningAtClick, captureTimedOut>>
  /\ UNCHANGED envVars
  /\ UNCHANGED otherThanPipeline

\* parse the copy; a parse error still returns success, with no tasks
ParseCopiedFile ==
  /\ pc = "parse"
  /\ stages' = Append(stages, "Parsing")
  /\ via' = "scan"
  /\ \E read \in FileSystem :
       IF read # "ok" \/ ParseThrows(foundFile.content)
       THEN Return(SuccessResult(<<>>, "target.csv"))
       ELSE Return(SuccessResult(parseFile(foundFile.content), "target.csv"))
  /\ UNCHANGED <<page, needsLogin, buttonDisabled, exportClicks, downloadStartTime,
                 foundFile, thrown, listening, listeningAtClick, captureTimedOut>>
  /\ UNCHANGED envVars
  /\ UNCHANGED otherThanPipeline

\* waitForEvent('download') resolved: save the download, return no tasks
DownloadCaught ==
  /\ pc = "waitDownload"
  /\ dlEvent = "caught"
  /\ listening' = FALSE
  /\ \E save \in Driver :
       IF save # "ok"
       THEN thrown' = "CsvDownloadFailed" /\ pc' = "downloadCatch" /\ UNCHANGED <<result, via>>
       ELSE via' = "event" /\ Return(SuccessResult(<<>>, "suggested.csv")) /\ UNCHANGED thrown
  /\ UNCHANGED <<page, stages, needsLogin, buttonDisabled, exportClicks, downloadStartTime,
                 foundFile, listeningAtClick, captureTimedOut>>
  /\ UNCHANGED envVars
  /\ UNCHANGED otherThanPipeline

\* waitForEvent('download') timed out after 10 s
DownloadTimeout_WaitsOn ==
  /\ pc = "waitDownload"
  /\ dlEvent # "caught"
  /\ UNCHANGED vars

DownloadTimeout ==
  /\ pc = "waitDownload"
  /\ dlEvent # "caught"
  /\ clock' = clock + DownloadEventTimeoutMs
  /\ listening' = FALSE
  /\ captureTimedOut' = TRUE
  /\ thrown' = "CsvDownloadFailed"
  /\ pc' = "downloadCatch"
  /\ UNCHANGED <<page, result, stages, needsLogin, buttonDisabled, exportClicks,
                 downloadStartTime, foundFile, via, listeningAtClick>>
  /\ UNCHANGED <<downloads, dlEvent, exportStarted, exportPayload, order, eventAt, fileAt>>
  /\ UNCHANGED otherThanPipeline

\* catch of the inner try: a screenshot, then the failure is returned
DownloadCatch ==
  /\ pc = "downloadCatch"
  /\ \E shot \in Driver :
       IF shot # "ok" THEN OuterCatch(shot)
       ELSE Return(FailureResult(<<"DownloadFailed", thrown>>))
  /\ UNCHANGED <<page, stages, needsLogin, buttonDisabled, exportClicks, downloadStartTime,
                 foundFile, thrown, via, listening, listeningAtClick, captureTimedOut>>
  /\ UNCHANGED envVars
  /\ UNCHANGED otherThanPipeline

(***************************************************************************)
(* The environment: the export started by the click shows up as a download *)
(* event of the browser and as a file of the download directory.           *)
(***************************************************************************)
\* the event reaches a pending waitForEvent, or nobody
DownloadEventFires ==
  /\ exportStarted
  /\ pc # "done"
  /\ dlEvent = "none"
  /\ dlEvent' = (IF listening THEN "caught" ELSE "lost")
  /\ order' = order + 1
  /\ eventAt' = order + 1
  /\ UNCHANGED pipeVars
  /\ UNCHANGED <<clock, downloads, exportStarted, exportPayload, fileAt>>
  /\ UNCHANGED otherThanPipeline

ExportedFileAppears ==
  /\ exportStarted
  /\ pc # "done"
  /\ fileAt = 0
  /\ downloads' = downloads \cup {[name |-> "uuid", mtime |-> clock, content |-> exportPayload]}
  /\ order' = order + 1
  /\ fileAt' = order + 1
  /\ UNCHANGED pipeVars
  /\ UNCHANGED <<clock, dlEvent, exportStarted, exportPayload, eventAt>>
  /\ UNCHANGED otherThanPipeline

(***************************************************************************)
(* CLI.handleCSVDownload around the run: it launches the browser, calls    *)
(* getTaskDataFromCSV, turns the FetchResult into a CLIResult, and in its  *)
(* finally block calls cleanup(), which catches its own errors.            *)
(***************************************************************************)
\* launchBrowser() returned success = false: the handler returns its error
HandlerLaunchFails ==
  /\ pc = "start" /\ page = "null"
  /\ cliResult = NoCliResult
  /\ cliResult' = CliFailure(<<"LaunchError">>)
  /\ pc' = "notRun"
  /\ UNCHANGED <<page, result, stages, needsLogin, buttonDisabled, exportClicks,
                 downloadStartTime, foundFile, thrown, via, listening, listeningAtClick,
                 captureTimedOut>>
  /\ UNCHANGED <<envVars, sessVars, dateVars, normVars, parseVars, runVars, readyVars, cmdVars, platVars>>

\* the run is over: a failure is passed on with its error, an exception is
\* caught and passed on as an error, a success carries the download path
HandlerReturns ==
  /\ pc = "done"
  /\ cliResult = NoCliResult
  /\ cliResult' = IF "exception" \in result.has THEN CliFailure(result.error)
                  ELSE IF ~result.success THEN CliFailure(result.error)
                  ELSE CliSuccess(result.downloadPath)
  /\ \E closed \in BOOLEAN : page' = IF closed THEN "null" ELSE page
  /\ UNCHANGED <<pc, result, stages, needsLogin, buttonDisabled, exportClicks,
                 downloadStartTime, foundFile, thrown, via, listening, listeningAtClick,
                 captureTimedOut>>
  /\ UNCHANGED <<envVars, sessVars, dateVars, normVars, parseVars, runVars, readyVars, cmdVars, platVars>>

Next ==
  \/ LaunchIfNeeded
  \/ OpenTaskPage
  \/ CheckLogin
  \/ OpenExportPage
  \/ AnalyzePage
  \/ InputDates
  \/ ClosePickerAndWait
  \/ DateInputCatch
  \/ FindDownloadButton
  \/ ButtonNotFound
  \/ ReadButtonInfo
  \/ ClickDownloadButton
  \/ PostClickCheck
  \/ PostClickWait
  \/ ScanDownloads
  \/ CopyFoundFile
  \/ ParseCopiedFile
  \/ DownloadCaught
  \/ DownloadTimeout
  \/ DownloadCatch
  \/ DownloadEventFires
  \/ ExportedFileAppears
  \/ HandlerLaunchFails
  \/ HandlerReturns

Spec == Init /\ [][Next]_vars

\* one step of getTaskDataFromCSV.  Each of its awaits is a driver call with
\* a timeout, a fixed sleep or a file operation, so a step that can be taken
\* is taken.
RunStep ==
  \/ LaunchIfNeeded
  \/ OpenTaskPage
  \/ CheckLogin
  \/ OpenExportPage
  \/ AnalyzePage
  \/ InputDates
  \/ ClosePickerAndWait
  \/ DateInputCatch
  \/ FindDownloadButton
  \/ ButtonNotFound
  \/ ReadButtonInfo
  \/ ClickDownloadButton
  \/ PostClickCheck
  \/ PostClickWait
  \/ ScanDownloads
  \/ CopyFoundFile
  \/ ParseCopiedFile
  \/ DownloadCaught
  \/ DownloadTimeout
  \/ DownloadCatch

SpecLive == Init /\ [][Next]_vars /\ WF_vars(RunStep)

(***************************************************************************)
(* The persisted sessions.                                                 *)
(*                                                                         *)
(* SessionManager keeps a browser storage state in one file and judges it  *)
(* by the file's modification time alone; TaskChuteAuth keeps session.json *)
(* and judges it by the loggedInAt it reads from the file.  A file is      *)
(* modelled by whether it exists, when it was written, whether its content *)
(* parses, and (for the storage state) whether the cookies in it belong to *)
(* a logged-in browser context.                                            *)
(***************************************************************************)
TickMs == TickHours * HourMs
AuthExpiryMs == AuthExpiryHours * HourMs
CredEmail == "chrome-profile@example.com"

Bool(b) == [bool |-> b]
Null == [null |-> TRUE]
Void == [void |-> TRUE]

\* what every operation records about itself; none of them touches the
\* export run
Op(name, ret, threw) ==
  /\ lastOp' = name
  /\ lastReturn' = ret
  /\ raised' = threw
  /\ prevStorage' = storage
  /\ prevSession' = session
  /\ prevContext' = afContext
  /\ UNCHANGED otherThanSession

browserVars == <<afPage, afContext, ctxAuth, profileAuth>>
loginVars == <<loginSeen>>
configVars == <<expiryMs, mtimeAvailable>>

\* SessionManager.isSessionValid(): stat the file; no file or no mtime is
\* invalid, otherwise the age of the file is compared with expiryMs.
isSessionValid_ExistenceOnly(st, t) ==
  st.exists

isSessionValid(st, t) ==
  IF ~st.exists THEN FALSE
  ELSE IF ~mtimeAvailable THEN FALSE
  ELSE LET age == t - st.mtime IN age < expiryMs

\* SessionManager.getSessionInfo()
getSessionInfo(st, t) ==
  IF ~st.exists THEN [exists |-> FALSE, lastModified |-> Null, isValid |-> FALSE]
  ELSE IF ~mtimeAvailable THEN [exists |-> TRUE, lastModified |-> Null, isValid |-> FALSE]
  ELSE LET age == t - st.mtime
           isValid == age < expiryMs
           remainingMs == expiryMs - age
       IN [exists |-> TRUE, lastModified |-> [time |-> st.mtime], isValid |-> isValid,
           remainingMinutes |-> IF isValid THEN remainingMs \div 60000 ELSE 0]

\* getContextOptions() that offers the file whenever it exists
getContextOptions_WhenExists(st, t) ==
  [storageState |-> st.exists]

\* SessionManager.getContextOptions(): the path of the file when it is valid
getContextOptions(st, t) ==
  IF isSessionValid(st, t) THEN [storageState |-> TRUE] ELSE [storageState |-> FALSE]

\* SessionManager.saveSession(context): context.storageState({ path }) writes
\* the cookies of the context to the file
SavedStorage(t, authenticated) ==
  [exists |-> TRUE, mtime |-> t, parseable |-> TRUE, authenticated |-> authenticated]

CallIsSessionValid ==
  /\ Op("isSessionValid", Bool(isSessionValid(storage, now)), FALSE)
  /\ UNCHANGED <<now, storage, session, browserVars, loginVars, configVars>>

CallGetSessionInfo ==
  /\ Op("getSessionInfo", getSessionInfo(storage, now), FALSE)
  /\ UNCHANGED <<now, storage, session, browserVars, loginVars, configVars>>

\* SessionManager.clearSession(): remove the file, ignoring a failure
clearSession ==
  /\ \E removed \in BOOLEAN :
       storage' = IF removed THEN NoStorage ELSE storage
  /\ Op("clearSession", Void, FALSE)
  /\ UNCHANGED <<now, session, browserVars, loginVars, configVars>>

\* TaskChuteAuth.getStoredSession(): read and JSON.parse, null on any failure
getStoredSession(se) ==
  IF se.exists /\ se.parseable
    THEN [null |-> FALSE, loggedInAt |-> se.loggedInAt,
          sessionValid |-> se.sessionValid, email |-> se.email]
    ELSE Null

IsNull(r) == "null" \in DOMAIN r /\ r.null

CallGetStoredSession ==
  /\ Op("getStoredSession", getStoredSession(session), FALSE)
  /\ UNCHANGED <<now, storage, session, browserVars, loginVars, configVars>>

\* TaskChuteAuth.createSession(): write { email, loggedInAt: now, sessionValid }
CreatedSession(t) ==
  [exists |-> TRUE, parseable |-> TRUE, loggedInAt |-> t,
   sessionValid |-> TRUE, email |-> CredEmail]

\* ... a failed write is caught and reported in the result
createSession(written) ==
  session' = IF written THEN CreatedSession(now) ELSE session

\* isLoggedIn() without the comparison of the emails
isLoggedIn_IgnoresEmail ==
  /\ LET s == getStoredSession(session)
     IN IF IsNull(s)
          THEN Op("isLoggedIn", Bool(FALSE), FALSE) /\ UNCHANGED session
        ELSE IF now - s.loggedInAt > AuthExpiryMs
          THEN /\ \E removed \in BOOLEAN :
                    session' = IF removed THEN NoSession ELSE session
               /\ Op("isLoggedIn", Bool(FALSE), FALSE)
        ELSE /\ Op("isLoggedIn", Bool(s.sessionValid), FALSE)
             /\ UNCHANGED session
  /\ UNCHANGED <<now, storage, browserVars, loginVars, configVars>>

\* TaskChuteAuth.isLoggedIn(): no session is false; a session older than 24
\* hours is removed and false; else sessionValid and the email matches.
isLoggedIn ==
  /\ LET s == getStoredSession(session)
     IN IF IsNull(s)
          THEN Op("isLoggedIn", Bool(FALSE), FALSE) /\ UNCHANGED session
        ELSE IF now - s.loggedInAt > AuthExpiryMs
          THEN /\ \E removed \in BOOLEAN :
                    session' = IF removed THEN NoSession ELSE session
               /\ Op("isLoggedIn", Bool(FALSE), FALSE)
        ELSE /\ Op("isLoggedIn", Bool(s.sessionValid /\ s.email = CredEmail), FALSE)
             /\ UNCHANGED session
  /\ UNCHANGED <<now, storage, browserVars, loginVars, configVars>>

\* TaskChuteAuth.logout(): remove session.json, ignoring a failure
logout ==
  /\ \E removed \in BOOLEAN :
       session' = IF removed THEN NoSession ELSE session
  /\ Op("logout", Void, FALSE)
  /\ UNCHANGED <<now, storage, browserVars, loginVars, configVars>>

\* time passes
Tick ==
  /\ now < MaxTicks * TickMs
  /\ now' = now + TickMs
  /\ Op("Tick", Void, FALSE)
  /\ UNCHANGED <<storage, session, browserVars, loginVars, configVars>>

\* a write to the storage state file is cut short, or another program
\* overwrites the file: it exists, is freshly modified, and does not parse
StorageDamaged ==
  /\ storage.exists /\ storage.parseable
  /\ storage' = [storage EXCEPT !.parseable = FALSE, !.mtime = now]
  /\ Op("damage", Void, FALSE)
  /\ UNCHANGED <<now, session, browserVars, loginVars, configVars>>

\* the same for session.json
SessionDamaged ==
  /\ session.exists /\ session.parseable
  /\ session' = [session EXCEPT !.parseable = FALSE]
  /\ Op("damage", Void, FALSE)
  /\ UNCHANGED <<now, storage, browserVars, loginVars, configVars>>

(***************************************************************************)
(* AuthenticatedFetcher: a browser whose context is restored from the      *)
(* storage state when SessionManager finds it valid, and is the persistent *)
(* profile otherwise.                                                      *)
(***************************************************************************)
\* whether a context restored from cookies is still logged in is up to the
\* remote site
StillLoggedIn(cookies) == IF cookies THEN BOOLEAN ELSE {FALSE}

\* the body of launchBrowser(): TRUE in ok when it returned success
Launch(ok) ==
  \E driverOk \in BOOLEAN :
    IF getContextOptions(storage, now).storageState
      THEN \* browser.newContext({ storageState }) reads and parses the file
           IF driverOk /\ storage.parseable
             THEN /\ afContext' = "restored"
                  /\ afPage' = "open"
                  /\ ctxAuth' \in StillLoggedIn(storage.authenticated)
                  /\ ok
             ELSE /\ UNCHANGED <<afContext, afPage, ctxAuth>>
                  /\ ~ok
      ELSE \* chromium.launchPersistentContext(userDataDir)
           IF driverOk
             THEN /\ afContext' = "fresh"
                  /\ afPage' = "open"
                  /\ ctxAuth' \in StillLoggedIn(profileAuth)
                  /\ ok
             ELSE /\ UNCHANGED <<afContext, afPage, ctxAuth>>
                  /\ ~ok

launchBrowser ==
  /\ \E ok \in BOOLEAN :
       /\ Launch(ok)
       /\ Op("launchBrowser", [success |-> ok], FALSE)
  /\ UNCHANGED <<now, storage, session, profileAuth, loginVars, configVars>>

navigateToTaskChute ==
  /\ IF afPage = "null"
       THEN \E ok \in BOOLEAN :
              /\ Launch(ok)
              /\ \E gotoOk \in BOOLEAN :
                   Op("navigateToTaskChute", [success |-> ok /\ gotoOk], FALSE)
       ELSE /\ UNCHANGED <<afContext, afPage, ctxAuth>>
            /\ \E gotoOk \in BOOLEAN :
                 Op("navigateToTaskChute", [success |-> gotoOk], FALSE)
  /\ UNCHANGED <<now, storage, session, profileAuth, loginVars, configVars>>

\* waitForManualLogin(timeout): go to the site, wait for the header of the
\* logged-in page, then save the context's storage state.  Every failure,
\* the one of the save included, is caught and returns false.
waitForManualLogin ==
  /\ IF afPage = "null"
       THEN /\ Op("waitForManualLogin", Bool(FALSE), FALSE)
            /\ UNCHANGED <<storage, ctxAuth, profileAuth, loginVars>>
       ELSE \E gotoOk \in BOOLEAN, userLogsIn \in BOOLEAN :
              IF gotoOk /\ (ctxAuth \/ userLogsIn)
                THEN /\ ctxAuth' = TRUE
                     /\ profileAuth' = IF afContext = "fresh" THEN TRUE ELSE profileAuth
                     /\ loginSeen' = TRUE
                     /\ IF afContext # "null"
                          THEN \E saved \in BOOLEAN :
                                 /\ storage' = IF saved THEN SavedStorage(now, TRUE) ELSE storage
                                 /\ Op("waitForManualLogin", Bool(saved), FALSE)
                          ELSE /\ UNCHANGED storage
                               /\ Op("waitForManualLogin", Bool(TRUE), FALSE)
                ELSE /\ Op("waitForManualLogin", Bool(FALSE), FALSE)
                     /\ UNCHANGED <<storage, ctxAuth, profileAuth, loginVars>>
  /\ UNCHANGED <<now, session, afPage, afContext, configVars>>

\* AuthenticatedFetcher.isUserLoggedIn(): the header shows within 5 seconds
AF_isUserLoggedIn_Saves ==
  /\ IF afPage = "null"
       THEN Op("isUserLoggedIn", Bool(FALSE), FALSE) /\ UNCHANGED storage
       ELSE \E shown \in StillLoggedIn(ctxAuth) :
              /\ Op("isUserLoggedIn", Bool(shown), FALSE)
              /\ storage' = IF shown THEN SavedStorage(now, TRUE) ELSE storage
  /\ UNCHANGED <<now, session, browserVars, loginVars, configVars>>

AF_isUserLoggedIn ==
  /\ IF afPage = "null"
       THEN Op("isUserLoggedIn", Bool(FALSE), FALSE)
       ELSE \E shown \in StillLoggedIn(ctxAuth) : Op("isUserLoggedIn", Bool(shown), FALSE)
  /\ UNCHANGED <<now, storage, session, browserVars, loginVars, configVars>>

\* saveSessionFromContext(context), called with the fetcher's own context:
\* a failure of the save is not caught
saveSessionFromContext ==
  /\ afContext # "null"
  /\ \E saved \in BOOLEAN :
       /\ storage' = IF saved THEN SavedStorage(now, ctxAuth) ELSE storage
       /\ Op("saveSessionFromContext", Void, ~saved)
  /\ UNCHANGED <<now, session, browserVars, loginVars, configVars>>

\* cleanup(): save the storage state of the context if there is one
\* (a failure is logged), then close page, context and browser; the first
\* close that fails ends the method with success = false.
cleanup ==
  /\ IF afContext # "null"
       THEN \E saved \in BOOLEAN :
              storage' = IF saved THEN SavedStorage(now, ctxAuth) ELSE storage
       ELSE UNCHANGED storage
  /\ \E closing \in {"ok", "pageThrows", "contextThrows", "browserThrows"} :
       /\ closing = "pageThrows" => afPage = "open"
       /\ closing = "contextThrows" => afContext # "null"
       /\ afPage' = IF closing = "pageThrows" THEN afPage ELSE "null"
       /\ afContext' = IF closing \in {"pageThrows", "contextThrows"} THEN afContext ELSE "null"
       /\ ctxAuth' = IF closing \in {"pageThrows", "contextThrows"} THEN ctxAuth ELSE FALSE
       /\ Op("cleanup", [success |-> closing = "ok"], FALSE)
  /\ UNCHANGED <<now, session, profileAuth, loginVars, configVars>>

(***************************************************************************)
(* The CLI's login and check-login commands.  Each command is one process: *)
(* it starts with no browser, drives a TaskChuteDataFetcher on the         *)
(* persistent profile and records the outcome with TaskChuteAuth.          *)
(***************************************************************************)
\* handleLogin: launch, navigate, wait up to 5 minutes for the header; on
\* success createSession() and cleanup(), else cleanup() and "Login timeout"
handleLogin ==
  /\ \E launched \in BOOLEAN, headerShown \in BOOLEAN :
       LET loginSuccess == launched /\ headerShown
       IN IF loginSuccess
            THEN /\ profileAuth' = TRUE
                 /\ loginSeen' = TRUE
                 /\ \E written \in BOOLEAN : createSession(written)
                 /\ Op("handleLogin", [success |-> TRUE, command |-> "login"], FALSE)
            ELSE /\ UNCHANGED <<profileAuth, loginVars, session>>
                 /\ Op("handleLogin", [success |-> FALSE, command |-> "login",
                                       error |-> "Login timeout"], FALSE)
  /\ UNCHANGED <<now, storage, afPage, afContext, ctxAuth, configVars>>

\* handleCheckLogin: checkLoginStatus() reports the header or an error; a
\* logged-in profile gets a new session.json
handleCheckLogin ==
  /\ \E launched \in BOOLEAN, headerShown \in StillLoggedIn(profileAuth) :
       LET isLoggedIn_ == launched /\ headerShown
       IN IF isLoggedIn_
            THEN /\ \E written \in BOOLEAN : createSession(written)
                 /\ Op("handleCheckLogin", [success |-> TRUE, command |-> "check-login"], FALSE)
            ELSE /\ UNCHANGED session
                 /\ Op("handleCheckLogin", [success |-> FALSE, command |-> "check-login",
                                            error |-> "DriverError"], FALSE)
  /\ UNCHANGED <<now, storage, browserVars, loginVars, configVars>>

InitS == PipelineIdle /\ InitSession /\ DateIdle /\ CliIdle /\ NormIdle /\ ParseIdle /\ RunIdle /\ ReadyIdle /\ CmdIdle /\ PlatIdle

NextS ==
  \/ CallIsSessionValid
  \/ CallGetSessionInfo
  \/ clearSession
  \/ CallGetStoredSession
  \/ isLoggedIn
  \/ logout
  \/ launchBrowser
  \/ navigateToTaskChute
  \/ waitForManualLogin
  \/ AF_isUserLoggedIn
  \/ saveSessionFromContext
  \/ cleanup
  \/ handleLogin
  \/ handleCheckLogin
  \/ Tick
  \/ StorageDamaged
  \/ SessionDamaged

SpecSession == InitS /\ [][NextS]_vars

(***************************************************************************)
(* SessionManager and the launch of AuthenticatedFetcher on their own.     *)
(***************************************************************************)
\* AuthenticatedFetcher.getLaunchOptions(): the storageState of
\* getContextOptions() next to the fetcher's own options
getLaunchOptions(st, t) ==
  [storageState |-> getContextOptions(st, t).storageState,
   headless |-> TRUE, timeout |-> 30000]

CallGetContextOptions ==
  /\ Op("getContextOptions", getContextOptions(storage, now), FALSE)
  /\ UNCHANGED <<now, storage, session, browserVars, loginVars, configVars>>

CallGetLaunchOptions ==
  /\ Op("getLaunchOptions", getLaunchOptions(storage, now), FALSE)
  /\ UNCHANGED <<now, storage, session, browserVars, loginVars, configVars>>

NextStore ==
  \/ CallIsSessionValid
  \/ CallGetContextOptions
  \/ CallGetLaunchOptions
  \/ launchBrowser
  \/ saveSessionFromContext
  \/ clearSession
  \/ StorageDamaged
  \/ Tick

SpecStore == InitS /\ [][NextStore]_vars

(***************************************************************************)
(* TaskChuteAuth on its own.  Every instance keeps its session in the same *)
(* file, so the file an instance finds may have been written by an         *)
(* instance with other credentials, or through saveSession() with          *)
(* sessionValid false.                                                     *)
(***************************************************************************)
OtherEmail == "session-test@example.com"

StoredSessions ==
  {NoSession} \cup
  [exists : {TRUE}, parseable : BOOLEAN, loggedInAt : {0},
   sessionValid : BOOLEAN, email : {CredEmail, OtherEmail}]

InitAuth ==
  /\ now = 0
  /\ expiryMs = ExpiryMs(DefaultExpiryHours)
  /\ mtimeAvailable = TRUE
  /\ storage = NoStorage
  /\ session \in StoredSessions
  /\ afPage = "null"
  /\ afContext = "null"
  /\ ctxAuth = FALSE
  /\ profileAuth = FALSE
  /\ loginSeen = FALSE
  /\ lastOp = "none"
  /\ lastReturn = [void |-> TRUE]
  /\ raised = FALSE
  /\ prevStorage = NoStorage
  /\ prevSession = NoSession
  /\ prevContext = "null"

\* TaskChuteAuth.createSession() called by itself
CallCreateSession ==
  /\ \E written \in BOOLEAN :
       /\ createSession(written)
       /\ Op("createSession",
             IF written THEN [success |-> TRUE, email |-> CredEmail]
                        ELSE [success |-> FALSE, error |-> "FsError"],
             FALSE)
  /\ UNCHANGED <<now, storage, browserVars, loginVars, configVars>>

\* TaskChuteAuth.refreshSession(): no stored session is "No session found";
\* any stored session gets loggedInAt = now and is written back, and a
\* failure of the write is not caught
refreshSession ==
  /\ LET s == getStoredSession(session)
     IN IF IsNull(s)
          THEN /\ Op("refreshSession", [success |-> FALSE, error |-> "No session found"], FALSE)
               /\ UNCHANGED session
        ELSE \E written \in BOOLEAN :
               /\ session' = IF written THEN [session EXCEPT !.loggedInAt = now]
                                        ELSE session
               /\ Op("refreshSession",
                     IF written THEN [success |-> TRUE, email |-> s.email] ELSE Void,
                     ~written)
  /\ UNCHANGED <<now, storage, browserVars, loginVars, configVars>>

InitA == PipelineIdle /\ InitAuth /\ DateIdle /\ CliIdle /\ NormIdle /\ ParseIdle /\ RunIdle /\ ReadyIdle /\ CmdIdle /\ PlatIdle

NextA ==
  \/ CallGetStoredSession
  \/ CallCreateSession
  \/ isLoggedIn
  \/ refreshSession
  \/ logout
  \/ Tick

SpecAuth == InitA /\ [][NextA]_vars

(***************************************************************************)
(* setDateInputStable(input, date): three ways of putting a date into one  *)
(* input field, each but the last followed by a look at the field.         *)
(*                                                                         *)
(* A string is a sequence of one-character strings.  The date argument is  *)
(* a YYYYMMDD string, which is what the CLI makes of its --from and --to   *)
(* options and what setDateRangeStable builds for today.  What the field   *)
(* holds after a strategy is up to the page: the date as typed, the date   *)
(* with the separators the page adds, nothing, a mask, or another date.    *)
(***************************************************************************)
Date1 == <<"2", "0", "2", "5", "0", "1", "0", "2">>
Date2 == <<"2", "0", "2", "5", "1", "2", "3", "1">>
Targets == {Date1, Date2}

\* how the page displays a YYYYMMDD date
Slashed(d) == SubSeq(d, 1, 4) \o <<"/">> \o SubSeq(d, 5, 6) \o <<"/">> \o SubSeq(d, 7, 8)
Mask == <<"Y", "Y", "Y", "Y", "/", "M", "M", "/", "D", "D">>
FieldValues == Targets \cup {Slashed(d) : d \in Targets} \cup {<<>>, Mask}

\* value.replace(/\//g, '')
StripSlashes(value) == SelectSeq(value, LAMBDA c : c # "/")

\* value === date || value.replace(/\//g, '') === date
Verified(value, date) == value = date \/ StripSlashes(value) = date

InitDate ==
  /\ datePc = "strategy1"
  /\ dateTarget \in Targets
  /\ dateValue \in FieldValues
  /\ dateExecuted = <<>>
  /\ dateReadBacks = <<>>
  /\ dateThrown = FALSE

\* an exception of the driver leaves setDateInputStable at once
DateThrows ==
  /\ datePc' = "returned"
  /\ dateThrown' = TRUE

\* strategy 1: click, fill(''), fill(date); return when the value read back
\* is the date
FillInput_NoReturn ==
  /\ datePc = "strategy1"
  /\ dateExecuted' = Append(dateExecuted, 1)
  /\ \E value \in FieldValues :
       /\ dateValue' = value
       /\ \/ /\ dateReadBacks' = Append(dateReadBacks, value)
             /\ datePc' = "strategy2"
             /\ UNCHANGED dateThrown
          \/ DateThrows /\ UNCHANGED dateReadBacks
  /\ UNCHANGED <<dateTarget, otherThanDate>>

FillInput ==
  /\ datePc = "strategy1"
  /\ dateExecuted' = Append(dateExecuted, 1)
  /\ \E value \in FieldValues :
       /\ dateValue' = value
       /\ \/ /\ dateReadBacks' = Append(dateReadBacks, value)
             /\ datePc' = IF Verified(value, dateTarget) THEN "returned" ELSE "strategy2"
             /\ UNCHANGED dateThrown
          \/ DateThrows /\ UNCHANGED dateReadBacks
  /\ UNCHANGED <<dateTarget, otherThanDate>>

\* strategy 2: click, Control+a, type the date; return when the value read
\* back is the date
TypeWithKeyboard ==
  /\ datePc = "strategy2"
  /\ dateExecuted' = Append(dateExecuted, 2)
  /\ \E value \in FieldValues :
       /\ dateValue' = value
       /\ \/ /\ dateReadBacks' = Append(dateReadBacks, value)
             /\ datePc' = IF Verified(value, dateTarget) THEN "returned" ELSE "strategy3"
             /\ UNCHANGED dateThrown
          \/ DateThrows /\ UNCHANGED dateReadBacks
  /\ UNCHANGED <<dateTarget, otherThanDate>>

\* strategy 3: set el.value and dispatch input, change and blur; the value is
\* not read back
SetValueByScript ==
  /\ datePc = "strategy3"
  /\ dateExecuted' = Append(dateExecuted, 3)
  /\ \E value \in FieldValues :
       /\ dateValue' = value
       /\ \/ datePc' = "returned" /\ UNCHANGED dateThrown
          \/ DateThrows
  /\ UNCHANGED <<dateTarget, dateReadBacks, otherThanDate>>

InitD == PipelineIdle /\ SessionIdle /\ InitDate /\ CliIdle /\ NormIdle /\ ParseIdle /\ RunIdle /\ ReadyIdle /\ CmdIdle /\ PlatIdle

NextD ==
  \/ FillInput
  \/ TypeWithKeyboard
  \/ SetValueByScript

SpecDate == InitD /\ [][NextD]_vars

(***************************************************************************)
(* The way of the --from and --to options of csv-download to the date      *)
(* input: convertDate in CLI.handleCSVDownload, then the default and the   *)
(* split into year, month and day in Step 5 of getTaskDataFromCSV.         *)
(***************************************************************************)
Digits == {"0", "1", "2", "3", "4", "5", "6", "7", "8", "9"}

\* "2025-01-02" for <<"2","0","2","5","0","1","0","2">>
Hyphenated(d) == SubSeq(d, 1, 4) \o <<"-">> \o SubSeq(d, 5, 6) \o <<"-">> \o SubSeq(d, 7, 8)

\* what a user may give as --from or --to; handleCSVDownload does not check it
OptionValues ==
  {Undefined, <<>>, Date1, Hyphenated(Date1), Hyphenated(Date2), Slashed(Date1),
   <<"2", "0", "2", "5", "-", "1", "-", "2">>}

\* JavaScript truthiness of an optional string
Truthy(str) == str # Undefined /\ str # <<>>

\* dateStr.replace(/-/g, '')
convertDate(dateStr) == SelectSeq(dateStr, LAMBDA c : c # "-")

InitNorm ==
  /\ normPc = "options"
  /\ optFrom \in OptionValues
  /\ optTo \in OptionValues
  /\ fromDate = Undefined /\ toDate = Undefined
  /\ startDate = <<>> /\ endDate = <<>>
  /\ today \in Targets

\* handleCSVDownload: if (options.from || options.to) each given option is
\* converted, the other stays undefined
ConvertOptions ==
  /\ normPc = "options"
  /\ normPc' = "converted"
  /\ IF Truthy(optFrom) \/ Truthy(optTo)
       THEN /\ fromDate' = IF Truthy(optFrom) THEN convertDate(optFrom) ELSE Undefined
            /\ toDate' = IF Truthy(optTo) THEN convertDate(optTo) ELSE Undefined
       ELSE UNCHANGED <<fromDate, toDate>>
  /\ UNCHANGED <<optFrom, optTo, startDate, endDate, today, otherThanNorm>>

\* getTaskDataFromCSV Step 5: fromDate || defaultDate, toDate || defaultDate
DefaultDates ==
  /\ normPc = "converted"
  /\ normPc' = "input"
  /\ startDate' = IF Truthy(fromDate) THEN fromDate ELSE today
  /\ endDate' = IF Truthy(toDate) THEN toDate ELSE today
  /\ UNCHANGED <<optFrom, optTo, fromDate, toDate, today, otherThanNorm>>

InitN == PipelineIdle /\ SessionIdle /\ DateIdle /\ CliIdle /\ InitNorm /\ ParseIdle /\ RunIdle /\ ReadyIdle /\ CmdIdle /\ PlatIdle

NextN ==
  \/ ConvertOptions
  \/ DefaultDates

SpecNorm == InitN /\ [][NextN]_vars

(***************************************************************************)
(* TaskChuteCsvParser.parseFile and calculateStats as functions of the     *)
(* text of the file.  A text is its number of leading byte order marks,    *)
(* whether its first field is written in double quotes, and its lines.     *)
(***************************************************************************)
MaxRows == 4
MaxBoms == 2

LinePending == [n |-> NumColumns, title |-> "T", start |-> "", end |-> ""]
LineEndOnly == [n |-> NumColumns, title |-> "T", start |-> "", end |-> "E"]
ParseLines == Lines \cup {LinePending, LineEndOnly}
Texts == [boms : 0..MaxBoms, quoted : BOOLEAN, lines : SeqsUpTo(ParseLines, MaxRows)]

\* parseFile without the replace
RemoveBOM_Keep(text) == text

\* csvContent.replace(/^\uFEFF/, ''): one leading mark is removed
RemoveBOM(text) ==
  [text EXCEPT !.boms = IF text.boms > 0 THEN text.boms - 1 ELSE 0]

\* the rows std/csv reads: a text of marks only is one row of one field
Rows(text) ==
  IF text.boms > 0 /\ text.lines = <<>> THEN <<LinePlain>> ELSE text.lines

\* std/csv parse with skipFirstRow and columns raises when there is no first
\* row, when a quote follows other characters of a field written without
\* quotes, and when a data row has another width than the columns
CsvThrows(text) ==
  \/ Rows(text) = <<>>
  \/ text.boms > 0 /\ text.quoted /\ text.lines # <<>>
  \/ ParseThrows(Rows(text))

\* parseFile after the read: [threw, tasks]
ParseText(text) ==
  LET clean == RemoveBOM(text)
  IN  IF CsvThrows(clean) THEN [threw |-> TRUE, tasks |-> <<>>]
      ELSE [threw |-> FALSE, tasks |-> parseFile(Rows(clean))]

RECURSIVE CountStatus(_, _)
CountStatus(tasks, status) ==
  IF tasks = <<>> THEN 0
  ELSE (IF Head(tasks).status = status THEN 1 ELSE 0)
       + CountStatus(Tail(tasks), status)

\* calculateStats whose switch has no case 'pending'
calculateStats_NoPending(tasks) ==
  [totalTasks |-> Len(tasks),
   completedTasks |-> CountStatus(tasks, "completed"),
   inProgressTasks |-> CountStatus(tasks, "in_progress"),
   pendingTasks |-> 0]

\* TaskChuteCsvParser.calculateStats: the length, and one counter per case of
\* the switch on task.status
calculateStats(tasks) ==
  [totalTasks |-> Len(tasks),
   completedTasks |-> CountStatus(tasks, "completed"),
   inProgressTasks |-> CountStatus(tasks, "in_progress"),
   pendingTasks |-> CountStatus(tasks, "pending")]

InitParse ==
  /\ parsePc = "input"
  /\ parseText \in Texts
  /\ parseRead \in FileSystem
  /\ parseThrew = FALSE
  /\ parseTasks = <<>>
  /\ parseStats = NoStats

\* parseFile(filePath)
CallParseFile ==
  /\ parsePc = "input"
  /\ LET out == IF parseRead # "ok" THEN [threw |-> TRUE, tasks |-> <<>>]
                ELSE ParseText(parseText)
     IN  /\ parseThrew' = out.threw
         /\ parseTasks' = out.tasks
         /\ parsePc' = IF out.threw THEN "failed" ELSE "parsed"
  /\ UNCHANGED <<parseText, parseRead, parseStats, otherThanParse>>

\* calculateStats(tasks) on what parseFile returned
CallCalculateStats ==
  /\ parsePc = "parsed"
  /\ parseStats' = calculateStats(parseTasks)
  /\ parsePc' = "summarized"
  /\ UNCHANGED <<parseText, parseRead, parseThrew, parseTasks, otherThanParse>>

InitP == PipelineIdle /\ SessionIdle /\ DateIdle /\ CliIdle /\ NormIdle /\ InitParse /\ RunIdle /\ ReadyIdle /\ CmdIdle /\ PlatIdle

NextP ==
  \/ CallParseFile
  \/ CallCalculateStats

SpecParse == InitP /\ [][NextP]_vars

(***************************************************************************)
(* CLI.run(args): --help, parseOptions, --dry-run and the switch on the    *)
(* command.  A handler is one step here; handleFetch is taken apart below. *)
(***************************************************************************)
MaxOpts == 3

\* getAvailableCommands()
getAvailableCommands ==
  {"login", "fetch", "status", "check-login", "stats", "save-html", "csv-test",
   "csv-download"}

\* the cases of the switch of the run() of src/cli.ts
RunCases_Six ==
  {"login", "fetch", "status", "check-login", "stats", "save-html"}

\* the cases of the switch in run()
RunCases ==
  {"login", "fetch", "status", "check-login", "stats", "save-html", "csv-test",
   "csv-download"}

FirstTokens == getAvailableCommands \cup {"bogus", "--dry-run", "--help"}
OptTokens ==
  {"--dry-run", "--help", "-h", "--headless", "--output", "--from", "out.json",
   "2025-06-01"}
ArgLists ==
  {<<>>} \cup {<<c>> \o rest : c \in FirstTokens, rest \in SeqsUpTo(OptTokens, MaxOpts)}

\* options[name] = value, replacing an earlier value
SetOption(options, name, value) ==
  [k \in DOMAIN options \cup {name} |-> IF k = name THEN value ELSE options[k]]

\* args[++i]: the next argument, or undefined after the last one
NoArg == "(undefined)"
ArgAt(args, i) == IF i <= Len(args) THEN args[i] ELSE NoArg

\* the loop of parseOptions from index i on
RECURSIVE parseOptionsFrom(_, _, _)
parseOptionsFrom(args, i, options) ==
  IF i > Len(args) THEN options
  ELSE LET arg == args[i]
       IN  IF arg = "--headless"
             THEN parseOptionsFrom(args, i + 1, SetOption(options, "headless", TRUE))
           ELSE IF arg = "--browser"
             THEN parseOptionsFrom(args, i + 2, SetOption(options, "browser", ArgAt(args, i + 1)))
           ELSE IF arg = "--timeout"
             THEN parseOptionsFrom(args, i + 2,
                                   SetOption(options, "timeout", [parseInt |-> ArgAt(args, i + 1)]))
           ELSE IF arg = "--output"
             THEN parseOptionsFrom(args, i + 2, SetOption(options, "output", ArgAt(args, i + 1)))
           ELSE IF arg = "--from"
             THEN parseOptionsFrom(args, i + 2, SetOption(options, "from", ArgAt(args, i + 1)))
           ELSE IF arg = "--to"
             THEN parseOptionsFrom(args, i + 2, SetOption(options, "to", ArgAt(args, i + 1)))
           ELSE IF arg = "--dry-run"
             THEN parseOptionsFrom(args, i + 1, SetOption(options, "dryRun", TRUE))
           ELSE parseOptionsFrom(args, i + 1, options)

\* parseOptions(args.slice(1))
parseOptions(args) == parseOptionsFrom(args, 2, NoOptions)

\* args.includes("--help") || args.includes("-h")
WantsHelp(args) == \E i \in 1..Len(args) : args[i] \in {"--help", "-h"}

\* args[0]
CommandOf(args) == ArgAt(args, 1)

InitRun ==
  /\ runPc = "run"
  /\ runArgs \in ArgLists
  /\ runOptions = NoOptions
  /\ runResult = NoRunResult
  /\ runCalls = <<>>

\* run: the help message
RunHelp ==
  /\ runPc = "run"
  /\ WantsHelp(runArgs)
  /\ runResult' = [success |-> TRUE]
  /\ runPc' = "returned"
  /\ UNCHANGED <<runArgs, runOptions, runCalls, otherThanRun>>

\* run whose --dry-run goes on into the switch
RunDryRun_CallsHandler ==
  /\ runPc = "run"
  /\ ~WantsHelp(runArgs)
  /\ runOptions' = parseOptions(runArgs)
  /\ "dryRun" \in DOMAIN runOptions'
  /\ runCalls' = <<CommandOf(runArgs)>>
  /\ runResult' = [success |-> TRUE, command |-> CommandOf(runArgs), options |-> runOptions']
  /\ runPc' = "returned"
  /\ UNCHANGED <<runArgs, otherThanRun>>

\* run: options.dryRun
RunDryRun ==
  /\ runPc = "run"
  /\ ~WantsHelp(runArgs)
  /\ runOptions' = parseOptions(runArgs)
  /\ "dryRun" \in DOMAIN runOptions'
  /\ runResult' = [success |-> TRUE, command |-> CommandOf(runArgs), options |-> runOptions']
  /\ runPc' = "returned"
  /\ UNCHANGED <<runArgs, runCalls, otherThanRun>>

\* run: a case of the switch; the handler returns its own result
RunDispatch ==
  /\ runPc = "run"
  /\ ~WantsHelp(runArgs)
  /\ runOptions' = parseOptions(runArgs)
  /\ "dryRun" \notin DOMAIN runOptions'
  /\ CommandOf(runArgs) \in RunCases
  /\ runCalls' = <<CommandOf(runArgs)>>
  /\ \E ok \in BOOLEAN :
       runResult' = [success |-> ok, command |-> CommandOf(runArgs)]
  /\ runPc' = "returned"
  /\ UNCHANGED <<runArgs, otherThanRun>>

\* run: the default of the switch
RunUnknown ==
  /\ runPc = "run"
  /\ ~WantsHelp(runArgs)
  /\ runOptions' = parseOptions(runArgs)
  /\ "dryRun" \notin DOMAIN runOptions'
  /\ CommandOf(runArgs) \notin RunCases
  /\ runResult' = [raised |-> "Unknown command", command |-> CommandOf(runArgs)]
  /\ runPc' = "raised"
  /\ UNCHANGED <<runArgs, runCalls, otherThanRun>>

InitR == PipelineIdle /\ SessionIdle /\ DateIdle /\ CliIdle /\ NormIdle /\ ParseIdle /\ InitRun /\ ReadyIdle /\ CmdIdle /\ PlatIdle

NextR ==
  \/ RunHelp
  \/ RunDryRun
  \/ RunDispatch
  \/ RunUnknown

SpecRun == InitR /\ [][NextR]_vars

(***************************************************************************)
(* handleFetch(options), step by step.  Dates and paths are sequences of   *)
(* characters.                                                             *)
(***************************************************************************)
JsonPath == <<"o", ".", "j", "s", "o", "n">>
HtmlPath == <<"o", ".", "h", "t", "m", "l">>
Outputs == {Undefined, JsonPath, HtmlPath}

\* what a user may give as --from or --to of fetch
FetchDates ==
  {Undefined, Hyphenated(Date1), Hyphenated(Date2), Date1, Slashed(Date1),
   <<"2", "0", "2", "5", "-", "1", "-", "2">>,
   <<"2", "0", "2", "5", "-", "0", "2", "-", "3", "0">>,
   <<"2", "0", "2", "5", "-", "0", "2", "-", "3", "2">>,
   <<"2", "0", "2", "5", "-", "1", "3", "-", "0", "1">>}

DigitChars == <<"0", "1", "2", "3", "4", "5", "6", "7", "8", "9">>
DigitVal(c) == (CHOOSE i \in 1..10 : DigitChars[i] = c) - 1
TwoDigits(date, i) == 10 * DigitVal(date[i]) + DigitVal(date[i + 1])

\* /^\d{4}-\d{2}-\d{2}$/.test(date)
MatchesDateRegex(date) ==
  /\ Len(date) = 10
  /\ \A i \in {1, 2, 3, 4, 6, 7, 9, 10} : date[i] \in Digits
  /\ date[5] = "-" /\ date[8] = "-"

\* !isNaN(new Date(date).getTime()) for a string of that form: the engine
\* takes a month of 1 to 12 and a day of 1 to 31, and carries a day beyond
\* the end of the month over into the next month
DateObjIsNumber(date) ==
  /\ TwoDigits(date, 6) \in 1..12
  /\ TwoDigits(date, 9) \in 1..31

\* CLI.isValidDateFormat
isValidDateFormat(date) ==
  IF ~MatchesDateRegex(date) THEN FALSE ELSE DateObjIsNumber(date)

\* options.output.endsWith('.json')
EndsWithJson(path) ==
  Len(path) >= 5 /\ SubSeq(path, Len(path) - 4, Len(path)) = <<".", "j", "s", "o", "n">>

FetchFailure(msg) == [success |-> FALSE, command |-> "fetch", error |-> msg]

InitFetch ==
  /\ runPc = "handleFetch"
  /\ runArgs = <<>>
  /\ runOptions \in [output : Outputs, from : FetchDates, to : FetchDates]
  /\ runResult = NoRunResult
  /\ runCalls = <<>>

\* the checks at the head of the try; a throw goes to the catch, which
\* returns the message, and then to the finally
FetchValidate ==
  /\ runPc = "handleFetch"
  /\ IF ~Truthy(runOptions.output)
       THEN runResult' = FetchFailure("output required") /\ runPc' = "finally"
     ELSE IF Truthy(runOptions.from) /\ ~isValidDateFormat(runOptions.from)
       THEN runResult' = FetchFailure("bad --from") /\ runPc' = "finally"
     ELSE IF Truthy(runOptions.to) /\ ~isValidDateFormat(runOptions.to)
       THEN runResult' = FetchFailure("bad --to") /\ runPc' = "finally"
     ELSE UNCHANGED runResult /\ runPc' = "navigate"
  /\ UNCHANGED <<runArgs, runOptions, runCalls, otherThanRun>>

\* await this.fetcher.navigateToTaskChute(fromDate, toDate); the result is
\* not looked at
FetchNavigate ==
  /\ runPc = "navigate"
  /\ runCalls' = Append(runCalls, "navigateToTaskChute")
  /\ \E call \in Driver :
       IF call = "ok"
         THEN UNCHANGED runResult /\ runPc' = "checkLogin"
         ELSE runResult' = FetchFailure(call) /\ runPc' = "finally"
  /\ UNCHANGED <<runArgs, runOptions, otherThanRun>>

\* if (!await this.fetcher.isUserLoggedIn()) return ...
FetchCheckLogin ==
  /\ runPc = "checkLogin"
  /\ runCalls' = Append(runCalls, "isUserLoggedIn")
  /\ \E loggedIn \in BOOLEAN :
       IF loggedIn
         THEN UNCHANGED runResult /\ runPc' = "getData"
         ELSE runResult' = FetchFailure("not logged in") /\ runPc' = "finally"
  /\ UNCHANGED <<runArgs, runOptions, otherThanRun>>

\* const taskData = await this.fetcher.getTaskData()
FetchGetData ==
  /\ runPc = "getData"
  /\ runCalls' = Append(runCalls, "getTaskData")
  /\ \E got \in BOOLEAN :
       IF got
         THEN UNCHANGED runResult /\ runPc' = "save"
         ELSE runResult' = FetchFailure("no data") /\ runPc' = "finally"
  /\ UNCHANGED <<runArgs, runOptions, otherThanRun>>

\* the file is written as JSON or as the HTML of the page
FetchSave ==
  /\ runPc = "save"
  /\ \E htmlOk \in BOOLEAN, saved \in BOOLEAN :
       IF EndsWithJson(runOptions.output)
         THEN /\ runCalls' = Append(runCalls, "saveJSONToFile")
              /\ runResult' = IF saved THEN [success |-> TRUE, command |-> "fetch"]
                                       ELSE FetchFailure("not saved")
         ELSE IF ~htmlOk
                THEN /\ runCalls' = Append(runCalls, "getPageHTML")
                     /\ runResult' = FetchFailure("no html")
                ELSE /\ runCalls' = runCalls \o <<"getPageHTML", "saveHTMLToFile">>
                     /\ runResult' = IF saved THEN [success |-> TRUE, command |-> "fetch"]
                                              ELSE FetchFailure("not saved")
  /\ runPc' = "finally"
  /\ UNCHANGED <<runArgs, runOptions, otherThanRun>>

\* finally: await this.fetcher.cleanup()
FetchCleanup ==
  /\ runPc = "finally"
  /\ runCalls' = Append(runCalls, "cleanup")
  /\ runPc' = "returned"
  /\ UNCHANGED <<runArgs, runOptions, runResult, otherThanRun>>

InitF == PipelineIdle /\ SessionIdle /\ DateIdle /\ CliIdle /\ NormIdle /\ ParseIdle /\ InitFetch /\ ReadyIdle /\ CmdIdle /\ PlatIdle

NextF ==
  \/ FetchValidate
  \/ FetchNavigate
  \/ FetchCheckLogin
  \/ FetchGetData
  \/ FetchSave
  \/ FetchCleanup

SpecFetch == InitF /\ [][NextF]_vars

(***************************************************************************)
(* TaskChuteDataFetcher.waitForReactReady.  The page hides its loading     *)
(* placeholder and reaches its load state at times counted from the call;  *)
(* a wait of the driver ends when its condition holds or raises when its   *)
(* timeout has passed or the page has been closed.                         *)
(***************************************************************************)
\* options.timeout ?? 30000, given to page.setDefaultTimeout
ReadyTimeouts == {5000, DefaultTimeoutMs}
\* when the placeholder is hidden: at once, in time, at the timeout, too late
SkeletonTimes == {0, 4000, SkeletonTimeoutMs, 60000}
\* when the load state is reached
LoadTimes == {0, 3000, 12000, 60000}

InitReady ==
  /\ readyPc = "start"
  /\ readyPage \in {"null", "open"}
  /\ readyTimeoutMs \in ReadyTimeouts
  /\ readySkeletonMs \in SkeletonTimes
  /\ readyLoadMs \in LoadTimes
  /\ readyWaitedMs = 0

\* if (!this.page) return;
ReadyEnter ==
  /\ readyPc = "start"
  /\ readyPc' = (IF readyPage = "null" THEN "returned" ELSE "skeleton")
  /\ UNCHANGED <<readyPage, readyTimeoutMs, readySkeletonMs, readyLoadMs, readyWaitedMs>>
  /\ UNCHANGED otherThanReady

\* try { waitForSelector('.MuiSkeleton-root', { state: 'hidden', timeout: 10000 }) }
\* catch { }: a timeout and a closed page are both swallowed
ReadyWaitSkeleton ==
  /\ readyPc = "skeleton"
  /\ readyWaitedMs' =
       (IF readyPage = "closed" THEN readyWaitedMs
        ELSE IF readySkeletonMs < SkeletonTimeoutMs THEN readySkeletonMs
        ELSE SkeletonTimeoutMs)
  /\ readyPc' = "loadState"
  /\ UNCHANGED <<readyPage, readyTimeoutMs, readySkeletonMs, readyLoadMs>>
  /\ UNCHANGED otherThanReady

\* await this.page.waitForLoadState('load'): outside any try, with the page's
\* default timeout
ReadyWaitLoadState ==
  /\ readyPc = "loadState"
  /\ IF readyPage = "closed"
     THEN readyPc' = "raised" /\ UNCHANGED readyWaitedMs
     ELSE IF readyLoadMs <= readyWaitedMs
     THEN readyPc' = "settle" /\ UNCHANGED readyWaitedMs
     ELSE IF readyLoadMs < readyWaitedMs + readyTimeoutMs
     THEN readyPc' = "settle" /\ readyWaitedMs' = readyLoadMs
     ELSE readyPc' = "raised" /\ readyWaitedMs' = readyWaitedMs + readyTimeoutMs
  /\ UNCHANGED <<readyPage, readyTimeoutMs, readySkeletonMs, readyLoadMs>>
  /\ UNCHANGED otherThanReady

\* await this.page.waitForTimeout(1000)
ReadySettle ==
  /\ readyPc = "settle"
  /\ IF readyPage = "closed"
     THEN readyPc' = "raised" /\ UNCHANGED readyWaitedMs
     ELSE readyPc' = "returned" /\ readyWaitedMs' = readyWaitedMs + SettleMs
  /\ UNCHANGED <<readyPage, readyTimeoutMs, readySkeletonMs, readyLoadMs>>
  /\ UNCHANGED otherThanReady

\* the environment: the page is closed while the call waits
ReadyPageCloses ==
  /\ readyPc \in {"skeleton", "loadState", "settle"}
  /\ readyPage = "open"
  /\ readyPage' = "closed"
  /\ UNCHANGED <<readyPc, readyTimeoutMs, readySkeletonMs, readyLoadMs, readyWaitedMs>>
  /\ UNCHANGED otherThanReady

InitY == PipelineIdle /\ SessionIdle /\ DateIdle /\ CliIdle /\ NormIdle /\ ParseIdle /\ RunIdle /\ InitReady /\ CmdIdle /\ PlatIdle

NextY ==
  \/ ReadyEnter
  \/ ReadyWaitSkeleton
  \/ ReadyWaitLoadState
  \/ ReadySettle
  \/ ReadyPageCloses

SpecReady == InitY /\ [][NextY]_vars

(***************************************************************************)
(* The command handlers of the CLI and the browser they leave behind.      *)
(* Each handler is its launch of the browser, its work, and the call of    *)
(* TaskChuteDataFetcher.cleanup() it makes on the path taken, if any.      *)
(***************************************************************************)
\* the commands whose handler launches the browser
LaunchingCommands ==
  {"login", "fetch", "check-login", "stats", "save-html", "csv-test", "csv-download"}

\* handlers with `finally { await this.fetcher.cleanup() }`
CleansInFinally == {"fetch", "csv-test", "csv-download"}

\* handlers that call cleanup() before their returns, but not in their catch
CleansBeforeReturn == {"login"}

\* how a handler's work after the launch can end: with a success result, a
\* failure result, or an exception its catch turns into a failure result.
\* Every call handleLogin and handleCheckLogin make catches its own errors.
WorkOutcomes(cmd) ==
  IF cmd \in {"login", "check-login"} THEN {"success", "failure"}
  ELSE {"success", "failure", "exception"}

\* the path the handler takes calls this.fetcher.cleanup()
HandlerCleansUp(cmd, outcome) ==
  \/ cmd \in CleansInFinally
  \/ cmd \in CleansBeforeReturn /\ outcome # "exception"

\* TaskChuteDataFetcher.cleanup(): page, context and browser are closed in
\* this order; the first close that raises ends it, and the catch returns
Cleanup(open, persistent, fails) ==
  IF fails = "page" /\ "page" \in open THEN open
  ELSE IF fails = "context" /\ "context" \in open THEN open \ {"page"}
  ELSE IF fails = "browser" /\ "browser" \in open /\ ~persistent THEN {"browser"}
  ELSE {}

InitCmd ==
  /\ cmdPc = "start"
  /\ cmdName \in LaunchingCommands
  /\ cmdPersistent \in BOOLEAN
  /\ cmdOpen = {}
  /\ cmdLaunched = FALSE
  /\ cmdOutcome = "none"
  /\ cmdCleanups = 0

\* launchBrowser(), called by the handler or by the first fetcher method that
\* finds no page; it returns its failure, with nothing or without a page
CmdLaunch ==
  /\ cmdPc = "start"
  /\ \E left \in {{"page", "context", "browser"}, {"context", "browser"}, {}} :
       /\ cmdOpen' = left
       /\ cmdLaunched' = ("page" \in left)
       /\ IF "page" \in left THEN cmdPc' = "work" /\ UNCHANGED cmdOutcome
          ELSE cmdPc' = "leave" /\ cmdOutcome' = "failure"
  /\ UNCHANGED <<cmdName, cmdPersistent, cmdCleanups>>
  /\ UNCHANGED otherThanCmd

\* the work of the handler with the browser
CmdWork ==
  /\ cmdPc = "work"
  /\ cmdOutcome' \in WorkOutcomes(cmdName)
  /\ cmdPc' = "leave"
  /\ UNCHANGED <<cmdName, cmdPersistent, cmdOpen, cmdLaunched, cmdCleanups>>
  /\ UNCHANGED otherThanCmd

\* the handler returns its CLIResult, through cleanup() where the path has it
CmdLeave ==
  /\ cmdPc = "leave"
  /\ IF HandlerCleansUp(cmdName, cmdOutcome)
     THEN /\ \E fails \in {"none", "page", "context", "browser"} :
               cmdOpen' = Cleanup(cmdOpen, cmdPersistent, fails)
          /\ cmdCleanups' = cmdCleanups + 1
     ELSE UNCHANGED <<cmdOpen, cmdCleanups>>
  /\ cmdPc' = "returned"
  /\ UNCHANGED <<cmdName, cmdPersistent, cmdLaunched, cmdOutcome>>
  /\ UNCHANGED otherThanCmd

InitC == PipelineIdle /\ SessionIdle /\ DateIdle /\ CliIdle /\ NormIdle /\ ParseIdle /\ RunIdle /\ ReadyIdle /\ InitCmd /\ PlatIdle

NextC ==
  \/ CmdLaunch
  \/ CmdWork
  \/ CmdLeave

SpecCmd == InitC /\ [][NextC]_vars

(***************************************************************************)
(* detectPlatform (src/platform.ts) with getWSLChromeUserDataDir and       *)
(* detectWindowsUsername.  The call stack holds MaxStack nested calls of   *)
(* these; a call beyond that overflows the stack.  An overflow inside the  *)
(* try block of checkIfWSL is swallowed by its catch, any other unwinds    *)
(* every frame, since none of them catches.                                *)
(***************************************************************************)
\* Deno.build.os
OsNames == {"darwin", "linux", "windows", "freebsd"}

\* /proc/version: only Linux kernels have it
ProcVersions(os) ==
  IF os = "linux"
  THEN {[readable |-> TRUE, microsoft |-> m, wsl |-> w] : m \in BOOLEAN, w \in BOOLEAN}
       \cup {[readable |-> FALSE, microsoft |-> FALSE, wsl |-> FALSE]}
  ELSE {[readable |-> FALSE, microsoft |-> FALSE, wsl |-> FALSE]}

\* checkIfWSL
checkIfWSL(proc) == proc.readable /\ (proc.microsoft \/ proc.wsl)

\* the four flags detectPlatform sets
PlatformFlags(os, isWSL) ==
  [isWSL |-> isWSL,
   isMac |-> os = "darwin",
   isWindows |-> os = "windows" /\ ~isWSL,
   isLinux |-> os = "linux" /\ ~isWSL,
   chromeUserDataDir |-> "undefined"]

\* detectWindowsUsername: the environment first, then, on WSL only, the first
\* user directory of /mnt/c/Users
detectWindowsUsername ==
  IF platEnvUser THEN "fromEnv"
  ELSE IF ~checkIfWSL(platProc) THEN "undefined"
  ELSE IF platScan = "found" THEN "fromScan"
  ELSE "undefined"

GetDirFrame == [fn |-> "getWSLChromeUserDataDir"]

InitPlat ==
  /\ platPc = "callDetect"
  /\ platOs \in OsNames
  /\ platProc \in ProcVersions(platOs)
  /\ platEnvUser \in BOOLEAN
  /\ platScan \in {"found", "none", "unreadable"}
  /\ platStack = <<>>
  /\ platRet = NoPlatformInfo
  /\ platCalls = 0

\* detectPlatform() is entered: the flags, then the branch for the platform;
\* the WSL branch calls getWSLChromeUserDataDir()
DetectPlatformEnter ==
  /\ platPc = "callDetect"
  /\ platCalls' = platCalls + 1
  /\ IF Len(platStack) >= MaxStack
     THEN \E caught \in BOOLEAN :
            IF caught
            THEN LET info == PlatformFlags(platOs, FALSE)
                 IN /\ platStack' = Append(platStack, info)
                    /\ platRet' = [info EXCEPT !.chromeUserDataDir =
                                     IF info.isLinux THEN "linux" ELSE "undefined"]
                    /\ platPc' = "returnDetect"
            ELSE platPc' = "raised" /\ UNCHANGED <<platStack, platRet>>
     ELSE LET info == PlatformFlags(platOs, checkIfWSL(platProc))
          IN /\ platStack' = Append(platStack, info)
             /\ IF info.isMac
                THEN platRet' = [info EXCEPT !.chromeUserDataDir = "mac"]
                     /\ platPc' = "returnDetect"
                ELSE IF info.isWindows
                THEN /\ \E appData \in BOOLEAN :
                          platRet' = [info EXCEPT !.chromeUserDataDir =
                                        IF appData THEN "windows" ELSE "undefined"]
                     /\ platPc' = "returnDetect"
                ELSE IF info.isWSL
                THEN platPc' = "callGetDir" /\ UNCHANGED platRet
                ELSE IF info.isLinux
                THEN platRet' = [info EXCEPT !.chromeUserDataDir = "linux"]
                     /\ platPc' = "returnDetect"
                ELSE platRet' = info /\ platPc' = "returnDetect"
  /\ UNCHANGED <<platOs, platProc, platEnvUser, platScan>>
  /\ UNCHANGED otherThanPlat

\* getWSLChromeUserDataDir() is entered: const platform = detectPlatform()
GetDirEnter ==
  /\ platPc = "callGetDir"
  /\ platStack' = Append(platStack, GetDirFrame)
  /\ platPc' = "callDetect"
  /\ UNCHANGED <<platOs, platProc, platEnvUser, platScan, platRet, platCalls>>
  /\ UNCHANGED otherThanPlat

\* detectPlatform() returns its PlatformInfo: to the caller of the model, or
\* to getWSLChromeUserDataDir(), which goes on to the user name and the path
DetectPlatformReturn ==
  /\ platPc = "returnDetect"
  /\ platStack' = SubSeq(platStack, 1, Len(platStack) - 1)
  /\ IF Len(platStack) = 1
     THEN platPc' = "returned" /\ UNCHANGED platRet
     ELSE /\ platPc' = "returnGetDir"
          /\ platRet' = [platRet EXCEPT !.chromeUserDataDir =
                           IF ~platRet.isWSL THEN "undefined"
                           ELSE IF detectWindowsUsername = "undefined" THEN "undefined"
                           ELSE "wslUsers"]
  /\ UNCHANGED <<platOs, platProc, platEnvUser, platScan, platCalls>>
  /\ UNCHANGED otherThanPlat

\* getWSLChromeUserDataDir() returns the path or undefined to the WSL branch
\* of detectPlatform(), which stores it and returns
GetDirReturn ==
  /\ platPc = "returnGetDir"
  /\ platStack' = SubSeq(platStack, 1, Len(platStack) - 1)
  /\ platRet' = [platStack[Len(platStack) - 1] EXCEPT !.chromeUserDataDir =
                   platRet.chromeUserDataDir]
  /\ platPc' = "returnDetect"
  /\ UNCHANGED <<platOs, platProc, platEnvUser, platScan, platCalls>>
  /\ UNCHANGED otherThanPlat

InitT == PipelineIdle /\ SessionIdle /\ DateIdle /\ CliIdle /\ NormIdle /\ ParseIdle /\ RunIdle /\ ReadyIdle /\ CmdIdle /\ InitPlat

NextT ==
  \/ DetectPlatformEnter
  \/ GetDirEnter
  \/ DetectPlatformReturn
  \/ GetDirReturn

SpecPlatform == InitT /\ [][NextT]_vars

(***************************************************************************)
(* Properties of the export pipeline (checked under Spec).                 *)
(***************************************************************************)
LaterStages == {"InputtingDates", "Triggering", "Capturing", "Parsing"}

\* C1: every value getTaskDataFromCSV returns is either success = true with a
\* task list and no error, or success = false with an error and no task list.
C1_OutcomeIsSuccessOrFailure ==
  pc = "done" =>
    \/ result.success /\ "tasks" \in result.has /\ "error" \notin result.has
    \/ ~result.success /\ "error" \in result.has /\ "tasks" \notin result.has
                       /\ result.error # <<>>

C1_Witness ==
  pc = "done" /\ result.success /\ Len(result.tasks) > 0

C3_ChannelsStartedBeforeClick ==
  /\ exportClicks > 0 => listeningAtClick
  /\ dlEvent # "lost"

\* C4 as stated: when the scan finds nothing and the download event times out,
\* the run ends with success = false and the download-failure reason, and the
\* button has been clicked once only.
C4_CaptureTimeoutReported ==
  (pc = "done" /\ captureTimedOut) =>
    /\ ~result.success
    /\ result.error = <<"DownloadFailed", "CsvDownloadFailed">>
    /\ exportClicks = 1

C6_ValidWithinTTL ==
  /\ expiryMs \in {DefaultExpiryHours * HourMs, CustomExpiryHours * HourMs}
  /\ lastOp = "isSessionValid" =>
       LET age == now - storage.mtime
       IN /\ (~storage.exists \/ age > expiryMs) => lastReturn = Bool(FALSE)
          /\ (storage.exists /\ mtimeAvailable /\ age < expiryMs) => lastReturn = Bool(TRUE)

C6_Witness ==
  /\ lastOp = "isSessionValid"
  /\ storage.exists /\ mtimeAvailable
  /\ expiryMs = CustomExpiryHours * HourMs
  /\ now - storage.mtime > expiryMs
  /\ lastReturn = Bool(FALSE)

\* C7 as stated: the validity checks and the load never raise; for an absent
\* file the validity check is false and the load is null; a file that does
\* not parse is reported invalid.
C7_BadSessionIsInvalid ==
  /\ lastOp \in {"isSessionValid", "getSessionInfo", "getStoredSession", "isLoggedIn"} => ~raised
  /\ (lastOp = "isSessionValid" /\ ~storage.exists) => lastReturn = Bool(FALSE)
  /\ (lastOp = "getSessionInfo" /\ ~storage.exists) => ~lastReturn.isValid
  /\ (lastOp = "getStoredSession" /\ ~session.exists) => lastReturn = Null
  /\ (lastOp = "isLoggedIn" /\ ~session.exists) => lastReturn = Bool(FALSE)
  /\ (lastOp = "isSessionValid" /\ storage.exists /\ ~storage.parseable) => lastReturn = Bool(FALSE)
  /\ (lastOp = "getSessionInfo" /\ storage.exists /\ ~storage.parseable) => ~lastReturn.isValid
  /\ (lastOp = "getStoredSession" /\ session.exists /\ ~session.parseable) => lastReturn = Null
  /\ (lastOp = "isLoggedIn" /\ session.exists /\ ~session.parseable) => lastReturn = Bool(FALSE)

\* C8 as stated: a persisted session exists only after a login success has
\* been detected.
C8_SnapshotOnlyAfterLogin ==
  /\ storage.exists => loginSeen
  /\ session.exists => loginSeen

\* C9 as stated: launching with a valid session, navigating, checking login
\* and cleaning up leave the storage state file and its modification time as
\* they were.
RunOps == {"launchBrowser", "navigateToTaskChute", "isUserLoggedIn"}

C9_RunIsReadOnly ==
  (lastOp \in RunOps \cup {"cleanup"} /\ "restored" \in {prevContext, afContext}) =>
    storage = prevStorage

\* C9 amended: launching, navigating and checking login leave the storage
\* state file as it was.  cleanup() of an open context leaves it or writes it
\* anew with the current time, and check-login leaves session.json or, when it
\* found the profile logged in, writes it anew with the current time.
C9_RunRenewsOnCleanup ==
  /\ lastOp \in RunOps => storage = prevStorage
  /\ lastOp = "cleanup" =>
       \/ storage = prevStorage
       \/ prevContext # "null" /\ storage.exists /\ storage.mtime = now
  /\ lastOp = "handleCheckLogin" =>
       /\ storage = prevStorage
       /\ \/ session = prevSession
          \/ lastReturn.success /\ session.exists /\ session.loggedInAt = now

C9_Witness ==
  /\ lastOp = "cleanup" /\ prevContext = "restored"
  /\ prevStorage.exists /\ prevStorage.mtime < now
  /\ storage.exists /\ storage.mtime = now
  /\ isSessionValid(storage, now)
  /\ ~isSessionValid(prevStorage, now + TickMs)
  /\ isSessionValid(storage, now + TickMs)

\* C10: once the run has found that a login is needed it has returned a
\* failure, and no date input, click, capture or parse has happened or happens.
C10_NeedsLoginIsTerminal ==
  needsLogin =>
    /\ pc = "done" /\ ~result.success
    /\ \A i \in 1..Len(stages) : stages[i] \notin LaterStages
    /\ exportClicks = 0 /\ via = "none"

C10_Witness ==
  needsLogin /\ pc = "done" /\ stages = <<"SessionCheck", "Navigating">>

C12_RunTerminates == <>(pc \in {"done", "notRun"})

C12_Witness ==
  /\ pc = "done"
  /\ captureTimedOut
  /\ ~result.success

\* the run parsed a copied file whose text the parser rejects
ParseFailed ==
  /\ pc = "done"
  /\ \E i \in 1..Len(stages) : stages[i] = "Parsing"
  /\ ParseThrows(foundFile.content)

ControlUnavailableReasons == {<<"ButtonNotFound">>}

\* C14 as stated: a run whose download button was still disabled when it was
\* clicked returns a failure whose reason names the button.
C14_DisabledControlFails ==
  (pc = "done" /\ buttonDisabled) =>
    (~result.success /\ result.error \in ControlUnavailableReasons)

\* a YYYYMMDD string: eight digits
WellFormed(d) == Len(d) = 8 /\ \A i \in 1..8 : d[i] \in Digits

\* C15 as stated: the start and end date of the date-input step are 8-digit
\* strings whatever the options were.
C15_DatesWellFormed ==
  normPc = "input" => (WellFormed(startDate) /\ WellFormed(endDate))

\* the file was read and parseFile has returned or raised
ParseDone == parsePc \in {"parsed", "failed", "summarized"} /\ parseRead = "ok"

\* C16: parseFile drops every row whose title is empty: it returns as many
\* records as there are data rows with a title.
C16_EmptyTitlesDropped ==
  (ParseDone /\ ~parseThrew) =>
    Len(parseTasks) =
      Cardinality({i \in 2..Len(parseText.lines) : parseText.lines[i].title # ""})

\* the header row is not a record: record i is made of line i + 1
HeaderSkipped ==
  /\ Len(parseTasks) = (IF parseText.lines = <<>> THEN 0 ELSE Len(parseText.lines) - 1)
  /\ \A i \in 1..Len(parseTasks) : parseTasks[i].title = parseText.lines[i + 1].title

\* a text with one byte order mark is parsed as the text without it
SameAsWithoutBOM ==
  parseText.boms = 1 =>
    [threw |-> parseThrew, tasks |-> parseTasks] = ParseText([parseText EXCEPT !.boms = 0])

\* the text "a,b\n1,x" after a byte order mark
ExampleText == [boms |-> 1, quoted |-> FALSE, lines |-> <<LineShort, LineShort>>]

\* C17 as stated: the byte order mark is stripped, the header row is never a
\* record, and the marked text "a,b\n1,x" gives exactly one record.
C17_BomAndHeader ==
  ParseDone =>
    /\ SameAsWithoutBOM
    /\ ~parseThrew => HeaderSkipped
    /\ parseText = ExampleText => (~parseThrew /\ Len(parseTasks) = 1)

\* C17 amended: the byte order mark is stripped and the header row is never a
\* record; a marked text of a header and one row of NumColumns fields gives
\* exactly one record, and a data row of any other width makes parseFile raise.
C17_BomAndHeaderFixedWidth ==
  ParseDone =>
    /\ SameAsWithoutBOM
    /\ ~parseThrew => HeaderSkipped
    /\ (parseText.boms = 1 /\ Len(parseText.lines) = 2
          /\ parseText.lines[2].n = NumColumns)
         => (~parseThrew /\ Len(parseTasks) = 1)
    /\ (\E i \in 2..Len(parseText.lines) : parseText.lines[i].n # NumColumns)
         => parseThrew

C17_Witness ==
  /\ parsePc = "parsed"
  /\ parseText.boms = 1
  /\ parseText.quoted
  /\ Len(parseText.lines) = 2
  /\ Len(parseTasks) = 1

\* C18: the status of a record follows from the two timestamps of its row
\* alone: completed when the end is present, in_progress when only the start
\* is present, pending otherwise.
C18_StatusFromTimestamps ==
  (ParseDone /\ ~parseThrew) =>
    \A i \in 1..Len(parseTasks) :
      LET row == parseText.lines[i + 1]
          status == parseTasks[i].status
      IN  /\ row.end # "" => status = "completed"
          /\ (row.end = "" /\ row.start # "") => status = "in_progress"
          /\ (row.end = "" /\ row.start = "") => status = "pending"

C18_Witness ==
  /\ parsePc = "parsed"
  /\ Len(parseTasks) = 3
  /\ parseText.lines[2] = LineDone /\ parseTasks[1].status = "completed"
  /\ parseText.lines[3] = LineRunning /\ parseTasks[2].status = "in_progress"
  /\ parseText.lines[4] = LinePending /\ parseTasks[3].status = "pending"

\* C19: the total of the summary is the number of records, and the completed,
\* in-progress and pending counts add up to it.
C19_CountsAddUp ==
  parsePc = "summarized" =>
    /\ parseStats.totalTasks = Len(parseTasks)
    /\ parseStats.completedTasks + parseStats.inProgressTasks
         + parseStats.pendingTasks = parseStats.totalTasks

C19_Witness ==
  /\ parsePc = "summarized"
  /\ parseStats.completedTasks = 1
  /\ parseStats.inProgressTasks = 1
  /\ parseStats.pendingTasks = 1
  /\ parseStats.totalTasks = 3

\* both persisted sessions are exactly as old as their time to live, and
\* nothing but the age speaks against either
AtTTL ==
  /\ storage.exists /\ mtimeAvailable
  /\ now - storage.mtime = expiryMs
  /\ prevSession.exists /\ prevSession.parseable
  /\ prevSession.sessionValid /\ prevSession.email = CredEmail
  /\ now - prevSession.loggedInAt = AuthExpiryMs

\* C20: a session whose age equals the time to live exactly gets the same
\* verdict from SessionManager.isSessionValid(), from getSessionInfo().isValid
\* and from TaskChuteAuth.isLoggedIn().
C20_SameVerdictAtTTL ==
  (lastOp = "isLoggedIn" /\ AtTTL) =>
    /\ getSessionInfo(storage, now).isValid = isSessionValid(storage, now)
    /\ lastReturn = Bool(isSessionValid(storage, now))

\* C21: clearSession() and logout() complete without error whether or not the
\* file exists, afterwards the session is invalid, and a second call changes
\* nothing more.
C21_ClearIsIdempotent ==
  /\ lastOp = "clearSession" =>
       (~raised /\ ~isSessionValid(storage, now) /\ storage = NoStorage)
  /\ lastOp = "logout" =>
       (~raised /\ IsNull(getStoredSession(session)) /\ session = NoSession)

\* what isLoggedIn() says of a stored session se at time t
LoggedInWith(se, t) ==
  /\ se.exists /\ se.parseable
  /\ t - se.loggedInAt <= AuthExpiryMs
  /\ se.sessionValid
  /\ se.email = CredEmail

C23_RefreshExtendsValidOnly ==
  lastOp = "refreshSession" =>
    /\ IsNull(getStoredSession(prevSession)) =>
         /\ lastReturn = [success |-> FALSE, error |-> "No session found"]
         /\ session = prevSession
    /\ (~IsNull(getStoredSession(prevSession))
          /\ now - prevSession.loggedInAt > AuthExpiryMs)
         => ~LoggedInWith(session, now)

\* the storage state file st is there and younger than expiryMs at time t
SnapshotValid(st, t) == st.exists /\ mtimeAvailable /\ t - st.mtime < expiryMs

\* C24: getContextOptions() and getLaunchOptions() carry the storageState
\* exactly when isSessionValid() is true, and a browser launched while it is
\* false starts without the stored snapshot.
C24_SnapshotReusedOnlyWhileValid ==
  /\ lastOp = "isSessionValid" => lastReturn = Bool(SnapshotValid(storage, now))
  /\ lastOp \in {"getContextOptions", "getLaunchOptions"} =>
       lastReturn.storageState = SnapshotValid(storage, now)
  /\ (lastOp = "launchBrowser" /\ lastReturn.success) =>
       /\ afContext = "restored" <=> SnapshotValid(storage, now)
       /\ afContext = "fresh" <=> ~SnapshotValid(storage, now)

C24_Witness ==
  /\ lastOp = "launchBrowser" /\ lastReturn.success
  /\ storage.exists /\ ~SnapshotValid(storage, now)
  /\ afContext = "fresh"

\* the options that take the next argument as their value
ValueOptions == {"--browser", "--timeout", "--output", "--from", "--to"}

\* --dry-run stands behind the command and is not the value of an option
DryRunGiven ==
  /\ ~WantsHelp(runArgs)
  /\ \E i \in 2..Len(runArgs) :
       runArgs[i] = "--dry-run" /\ runArgs[i - 1] \notin ValueOptions

\* C25: run(args) with --dry-run returns { success: true, command, options }
\* for the given command and calls no handler: no browser, no page, no
\* session or config file.
C25_DryRunCallsNothing ==
  (runPc \in {"returned", "raised"} /\ DryRunGiven) =>
    /\ runPc = "returned"
    /\ "dryRun" \in DOMAIN runOptions
    /\ runResult = [success |-> TRUE, command |-> runArgs[1], options |-> runOptions]
    /\ runCalls = <<>>
    /\ page = "null" /\ afPage = "null"
    /\ storage = NoStorage /\ session = NoSession

C25_Witness ==
  /\ runPc = "returned"
  /\ DryRunGiven
  /\ runArgs[1] = "fetch"
  /\ "output" \in DOMAIN runOptions
  /\ runCalls = <<>>

\* neither --help nor --dry-run is among the arguments
PlainRun ==
  /\ ~WantsHelp(runArgs)
  /\ \A i \in 1..Len(runArgs) : runArgs[i] # "--dry-run"

\* C26: run() dispatches exactly the commands getAvailableCommands() lists:
\* a listed command reaches its handler, any other raises 'Unknown command'
\* and no handler runs.
C26_DispatchesListedCommands ==
  (runPc \in {"returned", "raised"} /\ PlainRun) =>
    IF CommandOf(runArgs) \in getAvailableCommands
      THEN /\ runPc = "returned"
           /\ runCalls = <<CommandOf(runArgs)>>
      ELSE /\ runPc = "raised"
           /\ runResult = [raised |-> "Unknown command", command |-> CommandOf(runArgs)]
           /\ runCalls = <<>>

C26_Witness ==
  /\ runPc = "raised"
  /\ PlainRun
  /\ runArgs # <<>>
  /\ runArgs[1] = "bogus"
  /\ runCalls = <<>>

\* the days of month m of year y
DaysIn(y, m) ==
  IF m = 2 THEN (IF (y % 4 = 0 /\ y % 100 # 0) \/ y % 400 = 0 THEN 29 ELSE 28)
  ELSE IF m \in {4, 6, 9, 11} THEN 30 ELSE 31

\* date is YYYY-MM-DD and names a day of the calendar
RealDate(date) ==
  /\ MatchesDateRegex(date)
  /\ TwoDigits(date, 6) \in 1..12
  /\ TwoDigits(date, 9) \in
       1..DaysIn(100 * TwoDigits(date, 1) + TwoDigits(date, 3), TwoDigits(date, 6))

BadFetchArguments ==
  \/ runOptions.output = Undefined
  \/ runOptions.from # Undefined /\ ~RealDate(runOptions.from)
  \/ runOptions.to # Undefined /\ ~RealDate(runOptions.to)

\* C27: fetch without --output, or with a --from or --to that is not a valid
\* YYYY-MM-DD date, returns success = false with the error, and no
\* navigation, login check or data retrieval has taken place.
C27_FetchValidatesFirst ==
  (runPc = "returned" /\ BadFetchArguments) =>
    /\ runResult.success = FALSE
    /\ \A i \in 1..Len(runCalls) :
         runCalls[i] \notin {"navigateToTaskChute", "isUserLoggedIn", "getTaskData"}

\* the stages of a run, in their order
StageOrder ==
  <<"SessionCheck", "Navigating", "InputtingDates", "Triggering", "Capturing", "Parsing">>
StageIndex(st) == CHOOSE i \in 1..Len(StageOrder) : StageOrder[i] = st

\* a step leaves the stages entered so far as they are, and may add one
StagesOnlyGrow ==
  Len(stages') >= Len(stages) /\ SubSeq(stages', 1, Len(stages)) = stages

\* no stage is entered after the run has returned
StagesEndWithRun ==
  pc \in {"done", "notRun"} => stages' = stages

C29_DateInputNotFatal ==
  (pc = "done" /\ \E i \in 1..Len(stages) : stages[i] = "InputtingDates") =>
    \E j \in 1..Len(stages) : stages[j] = "Triggering"

C31_ScanTakesOnlyNewFiles ==
  foundFile # NoFile =>
    /\ foundFile.mtime >= downloadStartTime
    /\ IncludesComma(foundFile.content)
    /\ foundFile \notin PreFiles

\* C32: the capture only observes: after a run every file of the download
\* directory that the scan picked is still in the directory, unchanged.
C32_ChannelsLeaveFilesAlone ==
  (pc = "done" /\ foundFile # NoFile) => foundFile \in downloads

\* C33: the records of a successful outcome are the parse of the captured
\* payload, whether the payload was captured by the directory scan or by the
\* download event.
C33_SameRecordsByEitherChannel ==
  /\ (pc = "done" /\ result.success /\ via = "scan" /\ ~ParseThrows(foundFile.content))
       => result.tasks = parseFile(foundFile.content)
  /\ (pc = "done" /\ result.success /\ via = "event" /\ ~ParseThrows(exportPayload))
       => result.tasks = parseFile(exportPayload)

\* C34: waitForReactReady never raises, and it returns within the longest
\* wait its three steps allow: the placeholder's timeout, the page's default
\* timeout and the settling pause.
C34_ReadyNeverRaises ==
  /\ readyPc # "raised"
  /\ readyPc = "returned" =>
       readyWaitedMs <= SkeletonTimeoutMs + readyTimeoutMs + SettleMs

\* C35: a session found expired is deleted: after isSessionValid() has
\* answered false for an expired snapshot, getSessionInfo() reports that no
\* snapshot exists, and after isLoggedIn() has found the stored session
\* expired, loading the session gives null.
C35_ExpiredSessionIsDeleted ==
  /\ (/\ lastOp = "isSessionValid"
      /\ prevStorage.exists /\ mtimeAvailable
      /\ now - prevStorage.mtime >= expiryMs)
       => ~getSessionInfo(storage, now).exists
  /\ (/\ lastOp = "isLoggedIn"
      /\ ~IsNull(getStoredSession(prevSession))
      /\ now - prevSession.loggedInAt > AuthExpiryMs)
       => IsNull(getStoredSession(session))

\* C36: when a command that launched the browser has returned, with a
\* success, with a failure result or after a caught exception, cleanup() has
\* run and no page, context or browser is open.
C36_BrowserClosedOnReturn ==
  (cmdPc = "returned" /\ cmdLaunched) => (cmdCleanups >= 1 /\ cmdOpen = {})

\* C37: detectPlatform() returns on every platform, WSL included, and the
\* calls it makes never call detectPlatform again.
C37_DetectPlatformCalledOnce ==
  /\ platPc # "raised"
  /\ platCalls <= 1

FlagCount(info) ==
  Cardinality({f \in {"isWSL", "isMac", "isWindows", "isLinux"} : info[f]})

\* C38: exactly one of isWSL, isMac, isWindows and isLinux is true in the
\* PlatformInfo detectPlatform() returns, whatever the operating system's
\* name and the result of the WSL detection.
C38_ExactlyOneFlag ==
  platPc = "returned" => FlagCount(platRet) = 1

====
